---- MODULE Spec2Model ----
(***************************************************************************)
(* A model of the astro-cloudflare-pages-headers integration               *)
(* (src/src/integration.ts): the astro:config:setup and astro:build:done   *)
(* hooks, the CSP auto-hash patcher and the header-length enforcer.        *)
(*                                                                         *)
(* Representation of strings.                                              *)
(*  - Route keys, header names, file paths, hashes and single tokens are   *)
(*    TLA+ strings; the code's character operations on them (includes,     *)
(*    endsWith, slice, replace, toLowerCase) are computed character by     *)
(*    character.                                                           *)
(*  - A header value and the text of the _headers file is a "Text": the    *)
(*    sequence of its lexemes, where a lexeme is one whitespace character  *)
(*    (" ", "\t", "\n"), one ";" or a maximal run of other characters.     *)
(*    The code inspects a header value only through split(";"), trim(),    *)
(*    indexOf(" "), split(/\s+/), a trailing /;+\s*$/ and its length, all  *)
(*    of which act on lexeme boundaries.                                   *)
(*  - An object/Map with insertion-ordered keys is a sequence of records.  *)
(***************************************************************************)
EXTENDS Integers, Sequences, FiniteSets, TLC

(***************************************************************************)
(* Text utilities                                                          *)
(***************************************************************************)

\* JavaScript's white space as far as the model's alphabet goes (trim, \s).
IsWs(x) == x \in {" ", "\t", "\n"}

\* String.prototype.length of a Text: the sum of its lexemes' lengths.
RECURSIVE StrLen(_)
StrLen(t) == IF t = <<>> THEN 0 ELSE Len(Head(t)) + StrLen(Tail(t))

RECURSIVE TrimStart(_)
TrimStart(t) == IF t # <<>> /\ IsWs(Head(t)) THEN TrimStart(Tail(t)) ELSE t

RECURSIVE TrimEnd(_)
TrimEnd(t) ==
  IF t # <<>> /\ IsWs(t[Len(t)]) THEN TrimEnd(SubSeq(t, 1, Len(t) - 1)) ELSE t

\* String.prototype.trim
Trim(t) == TrimEnd(TrimStart(t))

RECURSIVE DropTrailingSemis(_)
DropTrailingSemis(t) ==
  IF t # <<>> /\ t[Len(t)] = ";" THEN DropTrailingSemis(SubSeq(t, 1, Len(t) - 1)) ELSE t

\* value.replace(/;+\s*$/, ""): a trailing run of ";" followed by optional
\* white space is removed; without such a run the value is left as it is.
StripTrailingSemicolons(t) ==
  LET body == TrimEnd(t)
  IN  IF body # <<>> /\ body[Len(body)] = ";" THEN DropTrailingSemis(body) ELSE t

\* Array.prototype.join for Texts: parts joined by the separator Text.
RECURSIVE JoinText(_, _)
JoinText(parts, sep) ==
  IF parts = <<>> THEN <<>>
  ELSE IF Len(parts) = 1 THEN parts[1]
  ELSE parts[1] \o sep \o JoinText(Tail(parts), sep)

\* The Text of a list of tokens joined by one space: tokens.join(" ").
RECURSIVE JoinTokens(_)
JoinTokens(tokens) ==
  IF tokens = <<>> THEN <<>>
  ELSE IF Len(tokens) = 1 THEN <<tokens[1]>>
  ELSE <<tokens[1], " ">> \o JoinTokens(Tail(tokens))

\* csp.split(";"): the pieces between the ";" lexemes (always at least one).
RECURSIVE SplitSemi(_, _)
SplitSemi(t, cur) ==
  IF t = <<>> THEN <<cur>>
  ELSE IF Head(t) = ";" THEN <<cur>> \o SplitSemi(Tail(t), <<>>)
  ELSE SplitSemi(Tail(t), Append(cur, Head(t)))

\* chunk.indexOf(" "), 1-based; 0 when the chunk holds no space character.
RECURSIVE IndexOfSpace(_, _)
IndexOfSpace(t, i) ==
  IF i > Len(t) THEN 0 ELSE IF t[i] = " " THEN i ELSE IndexOfSpace(t, i + 1)

\* src/src/integration.ts:138 splitCspSources: value.split(/\s+/).filter(Boolean).
\* Adjacent non-space lexemes (a ";" next to a word) form one token.
RECURSIVE SplitWords(_, _)
SplitWords(t, cur) ==
  IF t = <<>> THEN (IF cur = "" THEN <<>> ELSE <<cur>>)
  ELSE IF IsWs(Head(t))
       THEN (IF cur = "" THEN <<>> ELSE <<cur>>) \o SplitWords(Tail(t), "")
       ELSE SplitWords(Tail(t), cur \o Head(t))

splitCspSources(value) == SplitWords(value, "")

SeqToSet(s) == {s[i] : i \in 1..Len(s)}

(***************************************************************************)
(* Source-list merger and CSP directive codec                              *)
(***************************************************************************)

\* The first loop of mergeCspSources without the skip of 'none'.
RECURSIVE MergeExistingKeepingNone(_, _, _, _)
MergeExistingKeepingNone(existing, merged, hasAdditionalSources, stripUnsafeInline) ==
  IF existing = <<>> THEN merged
  ELSE LET source == Head(existing)
           skip == \/ source = ""
                   \/ stripUnsafeInline /\ source = "'unsafe-inline'"
                   \/ source \in SeqToSet(merged)
       IN  MergeExistingKeepingNone(Tail(existing),
                                    IF skip THEN merged ELSE Append(merged, source),
                                    hasAdditionalSources, stripUnsafeInline)

\* The first loop of mergeCspSources: the existing sources that are kept.
RECURSIVE MergeExisting(_, _, _, _)
MergeExisting(existing, merged, hasAdditionalSources, stripUnsafeInline) ==
  IF existing = <<>> THEN merged
  ELSE LET source == Head(existing)
           skip == \/ source = ""
                   \/ hasAdditionalSources /\ source = "'none'"
                   \/ stripUnsafeInline /\ source = "'unsafe-inline'"
                   \/ source \in SeqToSet(merged)
       IN  MergeExisting(Tail(existing),
                         IF skip THEN merged ELSE Append(merged, source),
                         hasAdditionalSources, stripUnsafeInline)

\* The second loop of mergeCspSources without the check of seen.
RECURSIVE MergeAdditionalUnchecked(_, _)
MergeAdditionalUnchecked(additional, merged) ==
  IF additional = <<>> THEN merged
  ELSE MergeAdditionalUnchecked(Tail(additional),
         IF Head(additional) = "" THEN merged ELSE Append(merged, Head(additional)))

\* The second loop of mergeCspSources: the additions not seen so far.
RECURSIVE MergeAdditional(_, _)
MergeAdditional(additional, merged) ==
  IF additional = <<>> THEN merged
  ELSE LET source == Head(additional)
       IN  MergeAdditional(Tail(additional),
                           IF source = "" \/ source \in SeqToSet(merged)
                           THEN merged ELSE Append(merged, source))

\* The merged token list of mergeCspSources, before it is joined.
MergedSources(existingSources, additionalSources, stripUnsafeInline) ==
  LET hasAdditionalSources == \E i \in 1..Len(additionalSources) : additionalSources[i] # ""
  IN  MergeAdditional(additionalSources,
        MergeExisting(existingSources, <<>>, hasAdditionalSources, stripUnsafeInline))

mergeCspSources(existingSources, additionalSources, stripUnsafeInline) ==
  Trim(JoinTokens(MergedSources(existingSources, additionalSources, stripUnsafeInline)))

\* Map.prototype.has / get / set on an insertion-ordered map of [name, value].
MapHas(m, name) == \E i \in 1..Len(m) : m[i].name = name

MapGet(m, name) == m[CHOOSE i \in 1..Len(m) : m[i].name = name].value

MapSet(m, name, value) ==
  IF MapHas(m, name)
  THEN [i \in 1..Len(m) |-> IF m[i].name = name THEN [name |-> name, value |-> value] ELSE m[i]]
  ELSE Append(m, [name |-> name, value |-> value])

\* One chunk of parseCspDirectives: its directive name and its sources.
ChunkName(chunk) ==
  LET firstSpace == IndexOfSpace(chunk, 1)
  IN  IF firstSpace = 0 THEN chunk ELSE SubSeq(chunk, 1, firstSpace - 1)

ChunkSources(chunk) ==
  LET firstSpace == IndexOfSpace(chunk, 1)
  IN  IF firstSpace = 0 THEN <<>> ELSE Trim(SubSeq(chunk, firstSpace + 1, Len(chunk)))

\* parseCspDirectives whose order lists a repeated name at its last occurrence.
RECURSIVE ParseChunksLastSeen(_, _)
ParseChunksLastSeen(chunks, parsed) ==
  IF chunks = <<>> THEN parsed
  ELSE LET chunk == Trim(Head(chunks))
       IN  IF chunk = <<>> THEN ParseChunksLastSeen(Tail(chunks), parsed)
           ELSE ParseChunksLastSeen(Tail(chunks),
                  [directives |-> MapSet(parsed.directives, ChunkName(chunk), ChunkSources(chunk)),
                   order |-> Append(SelectSeq(parsed.order, LAMBDA n : n # ChunkName(chunk)),
                                    ChunkName(chunk))])

RECURSIVE ParseChunks(_, _)
ParseChunks(chunks, parsed) ==
  IF chunks = <<>> THEN parsed
  ELSE LET chunk == Trim(Head(chunks))
       IN  IF chunk = <<>> THEN ParseChunks(Tail(chunks), parsed)
           ELSE ParseChunks(Tail(chunks),
                  [directives |-> MapSet(parsed.directives, ChunkName(chunk), ChunkSources(chunk)),
                   order |-> IF MapHas(parsed.directives, ChunkName(chunk))
                             THEN parsed.order ELSE Append(parsed.order, ChunkName(chunk))])

parseCspDirectives(csp) ==
  ParseChunks(SplitSemi(csp, <<>>), [directives |-> <<>>, order |-> <<>>])

\* The directive rendered without its value.
RenderDirectiveNameOnly(name, value) == name

\* The directive rendered as name, a space and value; the bare name for an empty value.
RenderDirective(name, value) == IF value = <<>> THEN name ELSE name \o <<" ">> \o value

serializeCspDirectives(parsed) ==
  LET ordered == SelectSeq(parsed.order, LAMBDA n : MapHas(parsed.directives, n))
      first == [i \in 1..Len(ordered) |->
                  RenderDirective(ordered[i], MapGet(parsed.directives, ordered[i]))]
      unordered == SelectSeq(parsed.directives, LAMBDA d : d.name \notin SeqToSet(ordered))
      rest == [i \in 1..Len(unordered) |-> RenderDirective(unordered[i].name, unordered[i].value)]
  IN  JoinText(first \o rest, <<";", " ">>)

(***************************************************************************)
(* Character-level helpers for route keys, header names and file paths     *)
(***************************************************************************)

CharAt(s, i) == SubSeq(s, i, i)

StartsWith(s, prefix) ==
  Len(prefix) <= Len(s) /\ SubSeq(s, 1, Len(prefix)) = prefix

EndsWith(s, suffix) ==
  Len(suffix) <= Len(s) /\ SubSeq(s, Len(s) - Len(suffix) + 1, Len(s)) = suffix

\* String.prototype.includes for a one-character needle.
Includes(s, ch) == \E i \in 1..Len(s) : CharAt(s, i) = ch

\* 1-based index of the first occurrence of needle in s at or after from; 0 if none.
RECURSIVE IndexOfFrom(_, _, _)
IndexOfFrom(s, needle, from) ==
  IF from + Len(needle) - 1 > Len(s) THEN 0
  ELSE IF SubSeq(s, from, from + Len(needle) - 1) = needle THEN from
  ELSE IndexOfFrom(s, needle, from + 1)

LowerCaseOf ==
  [c \in {"A", "B", "C", "D", "E", "F", "G", "H", "I", "J", "K", "L", "M",
          "N", "O", "P", "Q", "R", "S", "T", "U", "V", "W", "X", "Y", "Z"} |->
     CASE c = "A" -> "a" [] c = "B" -> "b" [] c = "C" -> "c" [] c = "D" -> "d"
       [] c = "E" -> "e" [] c = "F" -> "f" [] c = "G" -> "g" [] c = "H" -> "h"
       [] c = "I" -> "i" [] c = "J" -> "j" [] c = "K" -> "k" [] c = "L" -> "l"
       [] c = "M" -> "m" [] c = "N" -> "n" [] c = "O" -> "o" [] c = "P" -> "p"
       [] c = "Q" -> "q" [] c = "R" -> "r" [] c = "S" -> "s" [] c = "T" -> "t"
       [] c = "U" -> "u" [] c = "V" -> "v" [] c = "W" -> "w" [] c = "X" -> "x"
       [] c = "Y" -> "y" [] c = "Z" -> "z"]

\* String.prototype.toLowerCase on ASCII names.
RECURSIVE ToLowerCase(_)
ToLowerCase(s) ==
  IF s = "" THEN ""
  ELSE LET c == CharAt(s, 1)
       IN  (IF c \in DOMAIN LowerCaseOf THEN LowerCaseOf[c] ELSE c) \o ToLowerCase(Tail(s))

\* route.split("*"): the literal segments between the "*" characters.
RECURSIVE SplitStar(_, _)
SplitStar(s, cur) ==
  IF s = "" THEN <<cur>>
  ELSE IF CharAt(s, 1) = "*" THEN <<cur>> \o SplitStar(Tail(s), "")
  ELSE SplitStar(Tail(s), cur \o CharAt(s, 1))

\* route.replace(/\*/g, "").length: the specificity of a wildcard route.
RECURSIVE SumLen(_)
SumLen(segments) == IF segments = <<>> THEN 0 ELSE Len(Head(segments)) + SumLen(Tail(segments))

Specificity(route) == SumLen(SplitStar(route, ""))

\* The match of ^seg1.*seg2.* ... .*segN$ (every segment escaped, hence
\* literal) against s: the first segment is a prefix, the last a suffix of
\* what is left, each one in between is taken at its leftmost occurrence.
RECURSIVE MatchSegments(_, _, _)
MatchSegments(segments, s, anchored) ==
  LET seg == Head(segments)
  IN  IF Len(segments) = 1
      THEN IF anchored THEN s = seg ELSE EndsWith(s, seg)
      ELSE IF anchored
           THEN StartsWith(s, seg)
                /\ MatchSegments(Tail(segments), SubSeq(s, Len(seg) + 1, Len(s)), FALSE)
           ELSE LET at == IndexOfFrom(s, seg, 1)
                IN  at # 0
                    /\ MatchSegments(Tail(segments), SubSeq(s, at + Len(seg), Len(s)), FALSE)

\* pattern.test(builtRoute) for the pattern compiled from a wildcard route.
PatternTest(wildcardRoute, builtRoute) ==
  MatchSegments(SplitStar(wildcardRoute, ""), builtRoute, TRUE)

\* route.replace(/\/+$/, "")
RECURSIVE StripTrailingSlashes(_)
StripTrailingSlashes(route) ==
  IF route # "" /\ CharAt(route, Len(route)) = "/"
  THEN StripTrailingSlashes(SubSeq(route, 1, Len(route) - 1))
  ELSE route

\* route === "/" ? "/" : route.replace(/\/+$/, "")
NormalizeRoute(route) == IF route = "/" THEN "/" ELSE StripTrailingSlashes(route)

\* mapHtmlFileToRoute that gives a directory index the route without its trailing slash.
mapHtmlFileToRouteWithoutSlash(relativePath) ==
  IF relativePath = "index.html" THEN "/"
  ELSE IF EndsWith(relativePath, "/index.html")
       THEN "/" \o SubSeq(relativePath, 1, Len(relativePath) - Len("/index.html"))
  ELSE IF EndsWith(relativePath, ".html")
       THEN "/" \o SubSeq(relativePath, 1, Len(relativePath) - Len(".html"))
  ELSE "/" \o relativePath

\* The path handed in is path.relative(buildDir, htmlFile) with "/" separators.
mapHtmlFileToRoute(relativePath) ==
  IF relativePath = "index.html" THEN "/"
  ELSE IF EndsWith(relativePath, "/index.html")
       THEN "/" \o SubSeq(relativePath, 1, Len(relativePath) - Len("/index.html")) \o "/"
  ELSE IF EndsWith(relativePath, ".html")
       THEN "/" \o SubSeq(relativePath, 1, Len(relativePath) - Len(".html"))
  ELSE "/" \o relativePath

(***************************************************************************)
(* Hashes: hashSha256, the HTML extractor and the sorted hash sources      *)
(***************************************************************************)

\* The printable ASCII characters in code-unit order: 32 to 95, and 97 to 126.
AsciiFrom32 ==
  " !\"#$%&'()*+,-./0123456789:;<=>?@ABCDEFGHIJKLMNOPQRSTUVWXYZ[\\]^_"

AsciiFrom97 == "abcdefghijklmnopqrstuvwxyz{|}~"

CodeUnitOf ==
  [c \in {CharAt(AsciiFrom32, i) : i \in 1..Len(AsciiFrom32)}
         \cup {CharAt(AsciiFrom97, i) : i \in 1..Len(AsciiFrom97)} |->
     IF \E i \in 1..Len(AsciiFrom32) : CharAt(AsciiFrom32, i) = c
     THEN 31 + (CHOOSE i \in 1..Len(AsciiFrom32) : CharAt(AsciiFrom32, i) = c)
     ELSE 96 + (CHOOSE i \in 1..Len(AsciiFrom97) : CharAt(AsciiFrom97, i) = c)]

\* a < b in the order of Array.prototype.sort() without a comparator:
\* by UTF-16 code units, a proper prefix first.
RECURSIVE StringLess(_, _)
StringLess(a, b) ==
  IF b = "" THEN FALSE
  ELSE IF a = "" THEN TRUE
  ELSE IF CharAt(a, 1) = CharAt(b, 1) THEN StringLess(Tail(a), Tail(b))
  ELSE CodeUnitOf[CharAt(a, 1)] < CodeUnitOf[CharAt(b, 1)]

RECURSIVE SortStrings(_)
SortStrings(S) ==
  IF S = {} THEN <<>>
  ELSE LET least == CHOOSE m \in S : \A x \in S \ {m} : StringLess(m, x)
       IN  <<least>> \o SortStrings(S \ {least})

quoteAndSortHashes(hashes) ==
  LET sorted == SortStrings(hashes)
  IN  [i \in 1..Len(sorted) |-> "'" \o sorted[i] \o "'"]

\* base64(SHA-256(utf8(value))) of the contents that occur in the model's
\* HTML files, computed with a reference implementation.
Sha256Base64 ==
  [value \in {"body{color:red}", "body{color:blue}", "color:red", "a&amp;b", "a&b",
              "console.log('hi')", "console.log('about')", " "} |->
     CASE value = "body{color:red}" -> "FcQqt3aNlV7AZnGV4zkQRVeCeJOxbMPnQSx258L803E="
       [] value = "body{color:blue}" -> "+rSBHplSBoV1oMiWYUdFjCtqdNPOSdyNWkWyJgZ+p08="
       [] value = "color:red" -> "8f935d27GvUutRyY9yWScUMiFUk4WTdZURISiYfPOeQ="
       [] value = "a&amp;b" -> "+1ybHSHBpXiIvGQfHqcLunD0cVfaUhdNPRv1ysBDBm4="
       [] value = "a&b" -> "TgEjhdfK+EF/ip3Lpzr3Lb0GPjznzXZoEeBmgBGMh4I="
       [] value = "console.log('hi')" -> "1ohZFo3B9w3UOFBbfx6JSomkpkME90iPs1r/qXzvX7Y="
       [] value = "console.log('about')" -> "S9THWpDosVX8B7ewFx4z7x0qWGH25apT5kdwYZGNcY4="
       [] value = " " -> "Nqnn8clbgv+5l0PgxcTOldg8mkMKrFn4TvPL+rYUUGg="]

hashSha256(value) == "sha256-" \o Sha256Base64[value]

\* value.replace(/p1|p2|.../gi, replacement) for literal alternatives.
RECURSIVE ReplaceAllIgnoreCase(_, _, _)
ReplaceAllIgnoreCase(s, patterns, replacement) ==
  IF s = "" THEN ""
  ELSE LET hits == {p \in patterns :
                      Len(p) <= Len(s) /\ ToLowerCase(SubSeq(s, 1, Len(p))) = p}
       IN  IF hits # {}
           THEN LET p == CHOOSE q \in hits : TRUE
                IN  replacement \o
                    ReplaceAllIgnoreCase(SubSeq(s, Len(p) + 1, Len(s)), patterns, replacement)
           ELSE CharAt(s, 1) \o ReplaceAllIgnoreCase(Tail(s), patterns, replacement)

decodeHtmlEntities(value) ==
  LET quot == ReplaceAllIgnoreCase(value, {"&quot;", "&#34;", "&#x22;"}, "\"")
      apos == ReplaceAllIgnoreCase(quot, {"&apos;", "&#39;", "&#x27;"}, "'")
      lt == ReplaceAllIgnoreCase(apos, {"&lt;"}, "<")
      gt == ReplaceAllIgnoreCase(lt, {"&gt;"}, ">")
  IN  ReplaceAllIgnoreCase(gt, {"&amp;"}, "&")

\* content.trim() of an element body: empty once its white space is removed.
RECURSIVE IsBlank(_)
IsBlank(s) == s = "" \/ (IsWs(CharAt(s, 1)) /\ IsBlank(Tail(s)))

\* The index of the first character of s at or after i that is not white space.
RECURSIVE SkipWs(_, _)
SkipWs(s, i) == IF i <= Len(s) /\ IsWs(CharAt(s, i)) THEN SkipWs(s, i + 1) ELSE i

\* HAS_SCRIPT_SRC_REGEX.test(attrs): /\ssrc\s*=/i.
HasScriptSrc(attrs) ==
  \E i \in 1..Len(attrs) :
    /\ IsWs(CharAt(attrs, i))
    /\ i + 3 <= Len(attrs)
    /\ ToLowerCase(SubSeq(attrs, i + 1, i + 3)) = "src"
    /\ LET j == SkipWs(attrs, i + 4)
       IN  j <= Len(attrs) /\ CharAt(attrs, j) = "="

\* [A-Za-z0-9+/]
Base64Alphabet ==
  DOMAIN LowerCaseOf \cup {LowerCaseOf[c] : c \in DOMAIN LowerCaseOf}
  \cup {"0", "1", "2", "3", "4", "5", "6", "7", "8", "9", "+", "/"}

\* What INTEGRITY_HASH_REGEX captures when it matches attrs at index i:
\* /integrity\s*=\s*["'](sha256-[A-Za-z0-9+/]{43}=)["']/i; "" if it does not.
IntegrityAt(attrs, i) ==
  IF i + 8 <= Len(attrs) /\ ToLowerCase(SubSeq(attrs, i, i + 8)) = "integrity"
  THEN LET j == SkipWs(attrs, i + 9)
       IN  IF j <= Len(attrs) /\ CharAt(attrs, j) = "="
           THEN LET k == SkipWs(attrs, j + 1)
                IN  IF /\ k + 52 <= Len(attrs)
                       /\ CharAt(attrs, k) \in {"\"", "'"}
                       /\ ToLowerCase(SubSeq(attrs, k + 1, k + 7)) = "sha256-"
                       /\ \A m \in (k + 8)..(k + 50) : CharAt(attrs, m) \in Base64Alphabet
                       /\ CharAt(attrs, k + 51) = "="
                       /\ CharAt(attrs, k + 52) \in {"\"", "'"}
                    THEN SubSeq(attrs, k + 1, k + 51)
                    ELSE ""
           ELSE ""
  ELSE ""

\* attrs.match(INTEGRITY_HASH_REGEX)?.[1]: the capture of the leftmost match, "" if none.
IntegrityHashOf(attrs) ==
  LET hits == {i \in 1..Len(attrs) : IntegrityAt(attrs, i) # ""}
  IN  IF hits = {} THEN ""
      ELSE IntegrityAt(attrs, CHOOSE i \in hits : \A j \in hits : i <= j)

\* A match of STYLE_TAG_REGEX or SCRIPT_TAG_REGEX: match[1] is the text of
\* the opening tag after the tag name, match[2] the body.
ElementMatch(tag, attrs, content) ==
  [tag |-> tag, src |-> HasScriptSrc(attrs), integrity |-> IntegrityHashOf(attrs),
   content |-> content]

createEmptyCspHashSets ==
  [styleElementHashes |-> {}, styleAttributeHashes |-> {}, scriptElementHashes |-> {}]

\* An HTML document is the sequence of what the three regular expressions
\* match in it: [tag |-> "style" | "script", src, integrity, content] for
\* an element (src: HAS_SCRIPT_SRC_REGEX matches the opening tag; integrity:
\* the literal INTEGRITY_HASH_REGEX captures there, "" if none), and
\* [tag |-> "attr", content] for a style attribute with its raw value.
StyleElementHashesOf(html) ==
  {IF html[i].integrity # "" THEN html[i].integrity ELSE hashSha256(html[i].content) :
     i \in {j \in 1..Len(html) :
              html[j].tag = "style" /\ (html[j].integrity # "" \/ Len(html[j].content) > 0)}}

\* ScriptElementHashesOf that does not skip the scripts that have a src attribute.
ScriptElementHashesIgnoringSrc(html) ==
  {IF html[i].integrity # "" THEN html[i].integrity ELSE hashSha256(html[i].content) :
     i \in {j \in 1..Len(html) :
              /\ html[j].tag = "script"
              /\ (html[j].integrity # "" \/ ~IsBlank(html[j].content))}}

ScriptElementHashesOf(html) ==
  {IF html[i].integrity # "" THEN html[i].integrity ELSE hashSha256(html[i].content) :
     i \in {j \in 1..Len(html) :
              /\ html[j].tag = "script"
              /\ ~html[j].src
              /\ (html[j].integrity # "" \/ ~IsBlank(html[j].content))}}

StyleAttributeHashesOf(html) ==
  LET raw == {html[i].content : i \in {j \in 1..Len(html) :
                                         html[j].tag = "attr" /\ html[j].content # ""}}
  IN  {hashSha256(v) : v \in raw}
      \cup {hashSha256(decodeHtmlEntities(v)) : v \in {w \in raw : decodeHtmlEntities(w) # w}}

collectCspHashesFromHtml(html, cspOptions) ==
  [styleElementHashes |->
     IF cspOptions.hashStyleElements THEN StyleElementHashesOf(html) ELSE {},
   styleAttributeHashes |->
     IF cspOptions.hashStyleAttributes THEN StyleAttributeHashesOf(html) ELSE {},
   scriptElementHashes |->
     IF cspOptions.hashInlineScripts THEN ScriptElementHashesOf(html) ELSE {}]

\* mergeCspHashSets that replaces the style hashes of the target by those of the source.
mergeCspHashSetsReplacingStyles(target, source) ==
  [styleElementHashes |-> source.styleElementHashes,
   styleAttributeHashes |-> target.styleAttributeHashes \cup source.styleAttributeHashes,
   scriptElementHashes |-> target.scriptElementHashes \cup source.scriptElementHashes]

\* mergeCspHashSets that overwrites the target with the source.
mergeCspHashSetsOverwriting(target, source) == source

\* The target after mergeCspHashSets(target, source).
mergeCspHashSets(target, source) ==
  [styleElementHashes |-> target.styleElementHashes \cup source.styleElementHashes,
   styleAttributeHashes |-> target.styleAttributeHashes \cup source.styleAttributeHashes,
   scriptElementHashes |-> target.scriptElementHashes \cup source.scriptElementHashes]

buildCspHashSources(hashSets) ==
  [styleElementSources |-> quoteAndSortHashes(hashSets.styleElementHashes),
   styleAttributeSources |-> quoteAndSortHashes(hashSets.styleAttributeHashes),
   scriptElementSources |-> quoteAndSortHashes(hashSets.scriptElementHashes),
   inlineStyleHashes |-> Cardinality(hashSets.styleElementHashes),
   styleAttributeHashes |-> Cardinality(hashSets.styleAttributeHashes),
   inlineScriptHashes |-> Cardinality(hashSets.scriptElementHashes)]

hasAnyCspSources(sources) ==
  \/ Len(sources.styleElementSources) > 0
  \/ Len(sources.styleAttributeSources) > 0
  \/ Len(sources.scriptElementSources) > 0

(***************************************************************************)
(* patchCspValue                                                           *)
(***************************************************************************)

\* PatchDirective that never strips 'unsafe-inline'.
PatchDirectiveKeepingUnsafeInline(directives, active, name, defaultSources, additions, stripUnsafeInline) ==
  IF ~active THEN directives
  ELSE LET current == splitCspSources(IF MapHas(directives, name)
                                      THEN MapGet(directives, name) ELSE defaultSources)
           next == mergeCspSources(current, additions, FALSE)
       IN  IF MapHas(directives, name) /\ MapGet(directives, name) = next
           THEN directives
           ELSE MapSet(directives, name, next)

\* One of the three blocks of patchCspValue: the directive map after the
\* category active merged additions into directive name.
PatchDirective(directives, active, name, defaultSources, additions, stripUnsafeInline) ==
  IF ~active THEN directives
  ELSE LET current == splitCspSources(IF MapHas(directives, name)
                                      THEN MapGet(directives, name) ELSE defaultSources)
           next == mergeCspSources(current, additions, stripUnsafeInline)
       IN  IF MapHas(directives, name) /\ MapGet(directives, name) = next
           THEN directives
           ELSE MapSet(directives, name, next)

\* patchCspValue that serializes whether or not a directive changed.
patchCspValueAlwaysSerializing(rawCspValue, sources, cspOptions) ==
  LET cspValue == StripTrailingSemicolons(Trim(rawCspValue))
      parsed == parseCspDirectives(cspValue)
      style == PatchDirective(parsed.directives,
                 cspOptions.hashStyleElements /\ Len(sources.styleElementSources) > 0,
                 <<"style-src">>, <<"'self'">>, sources.styleElementSources,
                 cspOptions.stripUnsafeInline)
      attr == PatchDirective(style,
                 cspOptions.hashStyleAttributes /\ Len(sources.styleAttributeSources) > 0,
                 <<"style-src-attr">>, <<>>,
                 <<"'unsafe-hashes'">> \o sources.styleAttributeSources,
                 cspOptions.stripUnsafeInline)
      script == PatchDirective(attr,
                 cspOptions.hashInlineScripts /\ Len(sources.scriptElementSources) > 0,
                 <<"script-src">>, <<"'self'">>, sources.scriptElementSources,
                 cspOptions.stripUnsafeInline)
  IN  serializeCspDirectives([directives |-> script, order |-> parsed.order]) \o <<";">>

\* patchCspValue that treats style-src-attr as it treats style-src.
patchCspValueWithoutUnsafeHashes(rawCspValue, sources, cspOptions) ==
  LET cspValue == StripTrailingSemicolons(Trim(rawCspValue))
      parsed == parseCspDirectives(cspValue)
      style == PatchDirective(parsed.directives,
                 cspOptions.hashStyleElements /\ Len(sources.styleElementSources) > 0,
                 <<"style-src">>, <<"'self'">>, sources.styleElementSources,
                 cspOptions.stripUnsafeInline)
      attr == PatchDirective(style,
                 cspOptions.hashStyleAttributes /\ Len(sources.styleAttributeSources) > 0,
                 <<"style-src-attr">>, <<"'self'">>, sources.styleAttributeSources,
                 cspOptions.stripUnsafeInline)
      script == PatchDirective(attr,
                 cspOptions.hashInlineScripts /\ Len(sources.scriptElementSources) > 0,
                 <<"script-src">>, <<"'self'">>, sources.scriptElementSources,
                 cspOptions.stripUnsafeInline)
      changed == script # parsed.directives
  IN  IF ~changed THEN rawCspValue
      ELSE serializeCspDirectives([directives |-> script, order |-> parsed.order]) \o <<";">>

patchCspValue(rawCspValue, sources, cspOptions) ==
  LET cspValue == StripTrailingSemicolons(Trim(rawCspValue))
      parsed == parseCspDirectives(cspValue)
      style == PatchDirective(parsed.directives,
                 cspOptions.hashStyleElements /\ Len(sources.styleElementSources) > 0,
                 <<"style-src">>, <<"'self'">>, sources.styleElementSources,
                 cspOptions.stripUnsafeInline)
      attr == PatchDirective(style,
                 cspOptions.hashStyleAttributes /\ Len(sources.styleAttributeSources) > 0,
                 <<"style-src-attr">>, <<>>,
                 <<"'unsafe-hashes'">> \o sources.styleAttributeSources,
                 cspOptions.stripUnsafeInline)
      script == PatchDirective(attr,
                 cspOptions.hashInlineScripts /\ Len(sources.scriptElementSources) > 0,
                 <<"script-src">>, <<"'self'">>, sources.scriptElementSources,
                 cspOptions.stripUnsafeInline)
      changed == script # parsed.directives
  IN  IF ~changed THEN rawCspValue
      ELSE serializeCspDirectives([directives |-> script, order |-> parsed.order]) \o <<";">>

(***************************************************************************)
(* The RouteHeaderMap: an object of objects, keys in insertion order       *)
(***************************************************************************)

CONTENT_SECURITY_POLICY_HEADER == "content-security-policy"

\* Index of a route key in Object.keys(routes); 0 when routes[key] is undefined.
RouteIndex(routes, key) ==
  IF \E i \in 1..Len(routes) : routes[i].route = key
  THEN CHOOSE i \in 1..Len(routes) : routes[i].route = key
  ELSE 0

\* routes[key] = headers
RoutesSet(routes, key, headers) ==
  IF RouteIndex(routes, key) # 0
  THEN [i \in 1..Len(routes) |->
          IF routes[i].route = key THEN [route |-> key, headers |-> headers] ELSE routes[i]]
  ELSE Append(routes, [route |-> key, headers |-> headers])

\* delete routes[key]
RoutesDelete(routes, key) == SelectSeq(routes, LAMBDA e : e.route # key)

\* { ...right, ...left } in the key order of { ...left, ...right }
SpreadMergeLeftWins(left, right) ==
  left \o SelectSeq(right, LAMBDA h : ~MapHas(left, h.name))

\* { ...left, ...right }
SpreadMerge(left, right) ==
  [i \in 1..Len(left) |->
     IF MapHas(right, left[i].name)
     THEN [name |-> left[i].name, value |-> MapGet(right, left[i].name)]
     ELSE left[i]]
  \o SelectSeq(right, LAMBDA h : ~MapHas(left, h.name))

\* The index in Object.keys(headers) of the key findHeaderKey returns;
\* 0 when it returns undefined.
findHeaderKey(headers, headerName) ==
  LET hits == {i \in 1..Len(headers) : ToLowerCase(headers[i].name) = ToLowerCase(headerName)}
  IN  IF hits = {} THEN 0 ELSE CHOOSE i \in hits : \A j \in hits : i <= j

\* The cspRoutes of patchRoutesCsp: the routes with a CSP header, each with
\* its headerKey and the value of that header when patchRoutesCsp is entered.
CspRoutesOf(routes) ==
  LET withKey == SelectSeq(routes,
                   LAMBDA e : findHeaderKey(e.headers, CONTENT_SECURITY_POLICY_HEADER) # 0)
  IN  [i \in 1..Len(withKey) |->
         LET k == findHeaderKey(withKey[i].headers, CONTENT_SECURITY_POLICY_HEADER)
         IN  [route |-> withKey[i].route,
              headerKey |-> withKey[i].headers[k].name,
              value |-> withKey[i].headers[k].value]]

\* The comparator of wildcardRoutes without its specificity: declaration order only.
WildcardBeforeByOrder(left, right) == left.originalOrder - right.originalOrder < 0

\* Array.prototype.sort with the comparator of wildcardRoutes (a stable
\* sort): specificity descending, then originalOrder ascending.
WildcardBefore(left, right) ==
  IF Specificity(left.route) # Specificity(right.route)
  THEN Specificity(right.route) - Specificity(left.route) < 0
  ELSE left.originalOrder - right.originalOrder < 0

RECURSIVE SortWildcards(_)
SortWildcards(S) ==
  IF S = {} THEN <<>>
  ELSE LET first == CHOOSE w \in S : \A x \in S \ {w} : WildcardBefore(w, x)
       IN  <<first>> \o SortWildcards(S \ {first})

WildcardRoutesOf(cspRoutes) ==
  LET wild == SelectSeq(cspRoutes, LAMBDA r : Includes(r.route, "*"))
  IN  SortWildcards({[route |-> wild[i].route, headerKey |-> wild[i].headerKey,
                      value |-> wild[i].value, originalOrder |-> i - 1] : i \in 1..Len(wild)})

ExactRoutesOf(cspRoutes) == SelectSeq(cspRoutes, LAMBDA r : ~Includes(r.route, "*"))

\* wildcardRoutes.find(({ pattern }) => pattern.test(builtRoute)): its index, 0 if none.
FindTemplate(wildcardRoutes, builtRoute) ==
  LET hits == {i \in 1..Len(wildcardRoutes) : PatternTest(wildcardRoutes[i].route, builtRoute)}
  IN  IF hits = {} THEN 0 ELSE CHOOSE i \in hits : \A j \in hits : i <= j

\* The lookup of an exact route's bucket by normalized comparison only.
SourcesIndexForNormalizedOnly(sourcesByRoute, route) ==
  LET normal == {i \in 1..Len(sourcesByRoute) :
                   NormalizeRoute(sourcesByRoute[i].route) = NormalizeRoute(route)}
  IN  IF normal # {} THEN CHOOSE i \in normal : \A j \in normal : i <= j ELSE 0

\* The lookup of an exact route's bucket falling back to the first bucket.
SourcesIndexForOrFirst(sourcesByRoute, route) ==
  LET direct == {i \in 1..Len(sourcesByRoute) : sourcesByRoute[i].route = route}
  IN  IF direct # {} THEN CHOOSE i \in direct : TRUE
      ELSE IF Len(sourcesByRoute) > 0 THEN 1
      ELSE 0

\* The bucket an exact route is patched with: sourcesByRoute.get(route), or
\* else the first bucket whose route is equal after normalisation.
\* Its index in sourcesByRoute, 0 if there is none.
SourcesIndexFor(sourcesByRoute, route) ==
  LET direct == {i \in 1..Len(sourcesByRoute) : sourcesByRoute[i].route = route}
      normal == {i \in 1..Len(sourcesByRoute) :
                   NormalizeRoute(sourcesByRoute[i].route) = NormalizeRoute(route)}
  IN  IF direct # {} THEN CHOOSE i \in direct : TRUE
      ELSE IF normal # {} THEN CHOOSE i \in normal : \A j \in normal : i <= j
      ELSE 0

\* route.headers[route.headerKey] = nextValue, for the headers of routes[key].
SetHeaderOfRoute(routes, key, headerKey, value) ==
  [i \in 1..Len(routes) |->
     IF routes[i].route = key
     THEN [route |-> key, headers |-> MapSet(routes[i].headers, headerKey, value)]
     ELSE routes[i]]

\* The loop over exactRoutes: acc is [routes, updatedCspHeaders].
RECURSIVE PatchExactRoutes(_, _, _, _)
PatchExactRoutes(exactRoutes, sourcesByRoute, cspOptions, acc) ==
  IF exactRoutes = <<>> THEN acc
  ELSE LET route == Head(exactRoutes)
           at == SourcesIndexFor(sourcesByRoute, route.route)
           nextValue == patchCspValue(route.value, sourcesByRoute[at].sources, cspOptions)
       IN  IF at = 0 \/ ~hasAnyCspSources(sourcesByRoute[at].sources) \/ nextValue = route.value
           THEN PatchExactRoutes(Tail(exactRoutes), sourcesByRoute, cspOptions, acc)
           ELSE PatchExactRoutes(Tail(exactRoutes), sourcesByRoute, cspOptions,
                  [routes |-> SetHeaderOfRoute(acc.routes, route.route, route.headerKey, nextValue),
                   updatedCspHeaders |-> acc.updatedCspHeaders + 1])

\* Object.entries(routes).find(...) of the synthesis loop: the index of the
\* first non-wildcard route equal to the built route after normalisation.
ExistingRouteIndex(routes, builtRoute) ==
  LET hits == {i \in 1..Len(routes) :
                 /\ ~Includes(routes[i].route, "*")
                 /\ NormalizeRoute(routes[i].route) = NormalizeRoute(builtRoute)}
  IN  IF hits = {} THEN 0 ELSE CHOOSE i \in hits : \A j \in hits : i <= j

\* The iteration of the synthesis loop writing under the built route's own
\* key even when an exact route equal up to trailing slashes exists.
SynthesizeRouteUnderBuiltRoute(bucket, wildcardRoutes, cspOptions, acc) ==
  LET builtRoute == bucket.route
      existing == ExistingRouteIndex(acc.routes, builtRoute)
      hasExistingHeaders == existing # 0 /\ acc.routes[existing].route # ""
      existingHeaderKey ==
        IF hasExistingHeaders
        THEN findHeaderKey(acc.routes[existing].headers, CONTENT_SECURITY_POLICY_HEADER)
        ELSE 0
      template == FindTemplate(wildcardRoutes, builtRoute)
      targetHeaders == IF hasExistingHeaders THEN acc.routes[existing].headers ELSE <<>>
      nextValue == patchCspValue(wildcardRoutes[template].value, bucket.sources, cspOptions)
  IN  IF \/ ~hasAnyCspSources(bucket.sources)
         \/ existingHeaderKey # 0
         \/ template = 0
         \/ nextValue = wildcardRoutes[template].value
      THEN acc
      ELSE [routes |-> RoutesSet(acc.routes, builtRoute,
                         MapSet(targetHeaders, wildcardRoutes[template].headerKey, nextValue)),
            updatedCspHeaders |-> acc.updatedCspHeaders + 1]

\* One iteration of the synthesis loop for the bucket [route, sources].
SynthesizeRoute(bucket, wildcardRoutes, cspOptions, acc) ==
  LET builtRoute == bucket.route
      existing == ExistingRouteIndex(acc.routes, builtRoute)
      \* existingRouteKey ? routes[existingRouteKey] : undefined
      hasExistingHeaders == existing # 0 /\ acc.routes[existing].route # ""
      existingHeaderKey ==
        IF hasExistingHeaders
        THEN findHeaderKey(acc.routes[existing].headers, CONTENT_SECURITY_POLICY_HEADER)
        ELSE 0
      template == FindTemplate(wildcardRoutes, builtRoute)
      \* existingRouteKey ?? builtRoute
      targetRouteKey == IF existing # 0 THEN acc.routes[existing].route ELSE builtRoute
      targetHeaders == IF hasExistingHeaders THEN acc.routes[existing].headers ELSE <<>>
      nextValue == patchCspValue(wildcardRoutes[template].value, bucket.sources, cspOptions)
  IN  IF \/ ~hasAnyCspSources(bucket.sources)
         \/ existingHeaderKey # 0
         \/ template = 0
         \/ nextValue = wildcardRoutes[template].value
      THEN acc
      ELSE [routes |-> RoutesSet(acc.routes, targetRouteKey,
                         MapSet(targetHeaders, wildcardRoutes[template].headerKey, nextValue)),
            updatedCspHeaders |-> acc.updatedCspHeaders + 1]

RECURSIVE SynthesizeRoutes(_, _, _, _)
SynthesizeRoutes(sourcesByRoute, wildcardRoutes, cspOptions, acc) ==
  IF sourcesByRoute = <<>> THEN acc
  ELSE SynthesizeRoutes(Tail(sourcesByRoute), wildcardRoutes, cspOptions,
         SynthesizeRoute(Head(sourcesByRoute), wildcardRoutes, cspOptions, acc))

\* patchRoutesCsp in route mode, once routeHashes is collected.
PatchRoutesByRoute(routes, sourcesByRoute, cspOptions) ==
  LET cspRoutes == CspRoutesOf(routes)
      exact == PatchExactRoutes(ExactRoutesOf(cspRoutes), sourcesByRoute, cspOptions,
                 [routes |-> routes, updatedCspHeaders |-> 0])
  IN  SynthesizeRoutes(sourcesByRoute, WildcardRoutesOf(cspRoutes), cspOptions, exact)

\* patchRoutesCsp in global mode, once sources is collected.
RECURSIVE PatchGlobalRoutes(_, _, _, _)
PatchGlobalRoutes(cspRoutes, sources, cspOptions, acc) ==
  IF cspRoutes = <<>> THEN acc
  ELSE LET route == Head(cspRoutes)
           nextValue == patchCspValue(route.value, sources, cspOptions)
       IN  IF nextValue = route.value
           THEN PatchGlobalRoutes(Tail(cspRoutes), sources, cspOptions, acc)
           ELSE PatchGlobalRoutes(Tail(cspRoutes), sources, cspOptions,
                  [routes |-> SetHeaderOfRoute(acc.routes, route.route, route.headerKey, nextValue),
                   updatedCspHeaders |-> acc.updatedCspHeaders + 1])

PatchRoutesGlobal(routes, sources, cspOptions) ==
  PatchGlobalRoutes(CspRoutesOf(routes), sources, cspOptions,
                    [routes |-> routes, updatedCspHeaders |-> 0])

(***************************************************************************)
(* Length enforcement, rendering, configuration parsing                    *)
(***************************************************************************)

\* The header line "  <name>: <value>" as a Text, and its length.
HeaderLine(headerName, headerValue) == <<" ", " ", headerName \o ":", " ">> \o headerValue

HeaderLineLength(headerName, headerValue) == StrLen(HeaderLine(headerName, headerValue))

RECURSIVE ExceedingInHeaders(_, _, _)
ExceedingInHeaders(route, headers, maxHeaderLineLength) ==
  IF headers = <<>> THEN <<>>
  ELSE (IF HeaderLineLength(Head(headers).name, Head(headers).value) > maxHeaderLineLength
        THEN <<[route |-> route, headerName |-> Head(headers).name,
                length |-> HeaderLineLength(Head(headers).name, Head(headers).value)]>>
        ELSE <<>>)
       \o ExceedingInHeaders(route, Tail(headers), maxHeaderLineLength)

\* The exceedingLines of enforceHeaderLineLengthLimit.
RECURSIVE ExceedingLines(_, _)
ExceedingLines(routes, maxHeaderLineLength) ==
  IF routes = <<>> THEN <<>>
  ELSE ExceedingInHeaders(Head(routes).route, Head(routes).headers, maxHeaderLineLength)
       \o ExceedingLines(Tail(routes), maxHeaderLineLength)

\* enforceHeaderLineLengthLimit that warns whatever the overflow policy is.
enforceHeaderLineLengthLimitWarning(routes, cspOptions) ==
  IF Len(ExceedingLines(routes, cspOptions.maxHeaderLineLength)) = 0 THEN "pass" ELSE "warn"

\* enforceHeaderLineLengthLimit that throws whatever the overflow policy is.
enforceHeaderLineLengthLimitThrowing(routes, cspOptions) ==
  IF Len(ExceedingLines(routes, cspOptions.maxHeaderLineLength)) = 0 THEN "pass" ELSE "throw"

\* What enforceHeaderLineLengthLimit does: "pass", "warn" or "throw".
enforceHeaderLineLengthLimit(routes, cspOptions) ==
  IF Len(ExceedingLines(routes, cspOptions.maxHeaderLineLength)) = 0 THEN "pass"
  ELSE IF cspOptions.overflow = "warn" THEN "warn"
  ELSE "throw"

\* The lines array of generateHeadersContent.
RECURSIVE HeaderLines(_)
HeaderLines(headers) ==
  IF headers = <<>> THEN <<>>
  ELSE <<HeaderLine(Head(headers).name, Head(headers).value)>> \o HeaderLines(Tail(headers))

RECURSIVE ContentLines(_)
ContentLines(routes) ==
  IF routes = <<>> THEN <<>>
  ELSE <<<<Head(routes).route>>>> \o HeaderLines(Head(routes).headers) \o <<<<>>>>
       \o ContentLines(Tail(routes))

\* generateHeadersContent without the empty line after a route.
generateHeadersContentNoEmptyLine(routes) ==
  JoinText(SelectSeq(ContentLines(routes), LAMBDA line : line # <<>>), <<"\n">>)

generateHeadersContent(routes) == JoinText(ContentLines(routes), <<"\n">>)

\* A headers configuration is the sequence of its entries: [name, value]
\* for a flat one, [route, headers] for a nested one.
\* typeof Object.values(astroHeaders)[0] === "string"
SampleValueIsString(astroHeaders) ==
  astroHeaders # <<>> /\ "value" \in DOMAIN astroHeaders[1]

parseHeaders(astroHeaders) ==
  IF SampleValueIsString(astroHeaders)
  THEN <<[route |-> "/*", headers |-> astroHeaders]>>
  ELSE astroHeaders

\* isEmptyObject that takes no object for empty.
isEmptyObjectNever(obj) == FALSE

isEmptyObject(obj) == Len(obj) = 0

\* The routes after normalizeWorkersWildcardRoute.
normalizeWorkersWildcardRoute(routes, workersEnabled) ==
  IF ~workersEnabled \/ RouteIndex(routes, "*") = 0 THEN routes
  ELSE LET star == routes[RouteIndex(routes, "*")].headers
       IN  RoutesDelete(
             IF RouteIndex(routes, "/*") # 0
             THEN RoutesSet(routes, "/*",
                            SpreadMerge(star, routes[RouteIndex(routes, "/*")].headers))
             ELSE RoutesSet(routes, "/*", star),
             "*")

\* Whether normalizeWorkersWildcardRoute logs its warning.
WorkersMergeWarns(routes, workersEnabled) ==
  workersEnabled /\ RouteIndex(routes, "*") # 0 /\ RouteIndex(routes, "/*") # 0

\* hasEnabledHashCategory that ignores the three switches.
hasEnabledHashCategoryAlways(cspOptions) == TRUE

hasEnabledHashCategory(cspOptions) ==
  \/ cspOptions.hashStyleElements
  \/ cspOptions.hashStyleAttributes
  \/ cspOptions.hashInlineScripts

\* astro:build:done of the previous version with autoHashes off: what it
\* returns or throws, whether it wrote _headers and with what content,
\* given whether fs.writeFile succeeds.
previousBuildDone(astroHeaders, workersEnabled, writeSucceeds) ==
  IF ~astroHeaders.defined \/ isEmptyObject(astroHeaders.value)
  THEN [outcome |-> "returned", written |-> FALSE, content |-> <<>>]
  ELSE LET routes == normalizeWorkersWildcardRoute(parseHeaders(astroHeaders.value),
                                                   workersEnabled)
       IN  IF writeSucceeds
           THEN [outcome |-> "returned", written |-> TRUE,
                 content |-> generateHeadersContent(routes)]
           ELSE [outcome |-> "returned", written |-> FALSE, content |-> <<>>]

(***************************************************************************)
(* The inputs: option sets, header configurations, build directories       *)
(***************************************************************************)

\* The most build-hook invocations of one integration instance.
MaxBuilds == 2

\* The most directory entries of a build directory.
MaxEntries == 3

DEFAULT_CSP_OPTIONS ==
  [autoHashes |-> FALSE, hashStyleElements |-> TRUE, hashStyleAttributes |-> TRUE,
   hashInlineScripts |-> FALSE, stripUnsafeInline |-> TRUE, mode |-> "global",
   maxHeaderLineLength |-> 2000, overflow |-> "error"]

\* With autoHashes on: the hash categories, stripUnsafeInline and the mode.
PatchOptions(hashCategories, stripUnsafeInline, mode) ==
  [DEFAULT_CSP_OPTIONS EXCEPT !.autoHashes = TRUE,
                              !.hashStyleElements = hashCategories[1],
                              !.hashStyleAttributes = hashCategories[2],
                              !.hashInlineScripts = hashCategories[3],
                              !.stripUnsafeInline = stripUnsafeInline,
                              !.mode = mode]

HashCategoryChoices ==
  {<<TRUE, TRUE, FALSE>>, <<TRUE, TRUE, TRUE>>, <<TRUE, FALSE, FALSE>>, <<FALSE, FALSE, FALSE>>}

\* The default categories in either mode, and autoHashes off.
CommonOptions ==
  {DEFAULT_CSP_OPTIONS}
  \cup {PatchOptions(<<TRUE, TRUE, FALSE>>, TRUE, mode) : mode \in {"global", "route"}}

\* The options an integration instance is constructed with, as resolved by
\* resolveCspOptions, and options.workers: every choice of categories,
\* stripUnsafeInline and mode under the default length limit; the common
\* options under a limit of 90 with either overflow policy, and with the
\* workers mode.
InstanceChoices ==
  {[csp |-> PatchOptions(hc, strip, mode), workers |-> FALSE] :
     hc \in HashCategoryChoices, strip \in BOOLEAN, mode \in {"global", "route"}}
  \cup {[csp |-> o, workers |-> w] : o \in CommonOptions, w \in BOOLEAN}
  \cup {[csp |-> [o EXCEPT !.maxHeaderLineLength = 90, !.overflow = overflow], workers |-> FALSE] :
          o \in CommonOptions, overflow \in {"error", "warn"}}

\* A header: its name, and its value as a Text.
Header(name, value) == [name |-> name, value |-> value]

RedStyleHash == "sha256-FcQqt3aNlV7AZnGV4zkQRVeCeJOxbMPnQSx258L803E="

\* src/src/integration.test.ts:131
FlatPlain == <<Header("X-Test", <<"value">>)>>

\* src/src/integration.test.ts:289
FlatCsp ==
  <<Header("Content-Security-Policy", <<"default-src", " ", "'self'", ";", " ", "style-src", " ", "'self'", ";", " ", "script-src", " ", "'self'", ";">>),
    Header("X-Test", <<"value">>)>>

\* src/src/integration.test.ts:335 (a value of 100 characters)
NestedLong ==
  <<[route |-> "/test",
     headers |-> <<Header("X-Long-Header", <<"xxxxxxxxxxxxxxxxxxxxxxxxxxxxxxxxxxxxxxxxxxxxxxxxxxxxxxxxxxxxxxxxxxxxxxxxxxxxxxxxxxxxxxxxxxxxxxxxxxxx">>)>>]>>

\* A flat configuration whose one line is longer than the default limit
\* of 2000 characters: 21 words of 100 characters and the spaces between them.
FlatHuge ==
  <<Header("X-Long-Header",
           [i \in 1..41 |-> IF i % 2 = 1 THEN NestedLong[1].headers[1].value[1] ELSE " "])>>

\* src/src/integration.test.ts:218
NestedTest ==
  <<[route |-> "/test",
     headers |-> <<Header("Content-Security-Policy", <<"default-src", " ", "'self'", ";", " ", "style-src", " ", "'self'", " ", "'unsafe-inline'", ";", " ", "style-src-attr", " ", "'none'", ";", " ", "script-src", " ", "'self'", " ", "'unsafe-inline'">>)>>]>>

\* Exact routes with and without a CSP header and two wildcard templates.
NestedSite ==
  <<[route |-> "/*",
     headers |-> <<Header("Content-Security-Policy", <<"default-src", " ", "'self'", ";", " ", "style-src", " ", "'self'", " ", "'unsafe-inline'">>),
                   Header("X-Test", <<"value">>)>>],
    [route |-> "/about",
     headers |-> <<Header("X-Frame-Options", <<"DENY">>)>>],
    [route |-> "/a*",
     headers |-> <<Header("content-security-policy", <<"style-src", " ", "'none'">>),
                   Header("X-Test", <<"value">>)>>],
    [route |-> "/",
     headers |-> <<Header("Content-Security-Policy", <<"default-src", " ", "'self'", ";">>)>>],
    [route |-> "/missing",
     headers |-> <<Header("Content-Security-Policy", <<"script-src", " ", "'self'">>)>>]>>

\* The universal route of workers mode next to an explicit "/*".
NestedWorkers ==
  <<[route |-> "*",
     headers |-> <<Header("X-Frame-Options", <<"DENY">>),
                   Header("Content-Security-Policy", <<"style-src", " ", "'self'">>)>>],
    [route |-> "/*",
     headers |-> <<Header("Content-Security-Policy", <<"default-src", " ", "'none'">>)>>]>>

\* src/src/integration.test.ts:160
NestedStarOnly == <<[route |-> "*", headers |-> <<Header("X-Test", <<"value">>)>>]>>

\* A template that already lists the hash of the style element "body{color:red}".
NestedPinned ==
  <<[route |-> "/*",
     headers |-> <<Header("Content-Security-Policy", <<"style-src", " ", "'self'", " ", "'" \o RedStyleHash \o "'">>)>>],
    [route |-> "/about/",
     headers |-> <<Header("CONTENT-SECURITY-POLICY", <<"style-src", "\t", "'self'">>),
                   Header("Content-Security-Policy", <<"default-src", " ", "'self'">>)>>]>>

\* Three templates: the second and the third are equally specific.
NestedTemplates ==
  <<[route |-> "/*",
     headers |-> <<Header("Content-Security-Policy", <<"default-src", " ", "'self'">>)>>],
    [route |-> "/*t",
     headers |-> <<Header("content-security-policy", <<"style-src", " ", "'self'">>)>>],
    [route |-> "/a*",
     headers |-> <<Header("Content-Security-Policy", <<"style-src", " ", "'none'">>)>>]>>

HeaderConfigs ==
  {<<>>, FlatPlain, FlatCsp, FlatHuge, NestedLong, NestedTest, NestedSite, NestedWorkers, NestedStarOnly,
   NestedPinned, NestedTemplates}

Style(content) == [tag |-> "style", src |-> FALSE, integrity |-> "", content |-> content]

Script(content) == [tag |-> "script", src |-> FALSE, integrity |-> "", content |-> content]

StyleAttribute(rawValue) == [tag |-> "attr", src |-> FALSE, integrity |-> "", content |-> rawValue]

\* A build directory is the sequence of its files in the order the walk of
\* collectHtmlFiles meets them: [path, html] with the path relative to the
\* build directory.
\* src/src/integration.test.ts:200
IndexHtml ==
  [path |-> "index.html",
   html |-> <<Style("body{color:red}"), StyleAttribute("color:red"), Script("console.log('hi')")>>]

\* src/src/integration.test.ts:258
AboutIndexHtml ==
  [path |-> "about/index.html",
   html |-> <<Style("body{color:blue}"), Script("console.log('about')")>>]

AboutHtml == [path |-> "about.html", html |-> <<Style("body{color:red}"), StyleAttribute("a&amp;b")>>]

StarHtml == [path |-> "a*.html", html |-> <<Style("body{color:red}")>>]

PlainHtml == [path |-> "plain.html", html |-> <<>>]

StyleCss == [path |-> "style.css", html |-> <<>>]

BuildDirs ==
  {d \in {<<>>,
          <<IndexHtml, AboutIndexHtml, StyleCss>>,
          <<AboutIndexHtml, IndexHtml>>,
          <<AboutHtml, AboutIndexHtml>>,
          <<PlainHtml, AboutHtml, StarHtml>>,
          <<IndexHtml, AboutIndexHtml, AboutHtml, StarHtml>>} : Len(d) <= MaxEntries}

(***************************************************************************)
(* The integration instance and its two hooks                              *)
(***************************************************************************)

VARIABLES
  cspOptions,        \* resolveCspOptions(options), fixed at construction
  workersEnabled,    \* options.workers === true
  buildDir,          \* the build output directory on disk
  astroHeaders,      \* the closure variable: [defined, value]
  setupDone,         \* astro:config:setup has run
  pc,                \* where the build hook stands; "idle" outside of it
  builds,            \* the build hooks that have ended
  startHeaders,      \* astroHeaders when the current build hook started
  routes,            \* the RouteHeaderMap of the current build hook
  patchInput,        \* routes as handed to patchRoutesCsp (after normalisation)
  patchState,        \* "none", "skipped", "entered", "completed", "failed"
  htmlFiles,         \* the result of collectHtmlFiles
  nextFile,          \* index in htmlFiles of the next file to read
  mergedHashSets,    \* collectCspHashesFromBuild's accumulator
  hashSetsByRoute,   \* collectCspHashesByRouteFromBuild's Map, in insertion order
  totals,            \* collectCspHashesByRouteFromBuild's totals
  report,            \* the CspHashReport of patchRoutesCsp
  log,               \* the logger calls of the current hook, in order
  fsReads,           \* readdir and readFile calls of the current build hook
  headersFile,       \* the _headers file: [exists, content]
  writes,            \* writeFile calls of the current build hook
  outcome,           \* how the last build hook ended: "none", "returned", or the Error thrown
  call               \* a call of a pure function of the module: [fn, args, returned]

hook ==
  <<cspOptions, workersEnabled, buildDir, astroHeaders, setupDone, pc, builds, startHeaders,
    routes, patchInput, patchState, htmlFiles, nextFile, mergedHashSets, hashSetsByRoute,
    totals, report, log, fsReads, headersFile, writes, outcome>>

vars == <<hook, call>>

options == <<cspOptions, workersEnabled>>

scan == <<htmlFiles, nextFile, mergedHashSets, hashSetsByRoute, totals>>

Undefined == [defined |-> FALSE, value |-> <<>>]

ZeroReport ==
  [inlineStyleHashes |-> 0, styleAttributeHashes |-> 0, inlineScriptHashes |-> 0,
   updatedCspHeaders |-> 0]

Info(msg) == [level |-> "info", msg |-> msg]

InfoWith(msg, data) == [level |-> "info", msg |-> msg, data |-> data]

Warn(msg) == [level |-> "warn", msg |-> msg]

WarnWith(msg, data) == [level |-> "warn", msg |-> msg, data |-> data]

Error(msg) == [level |-> "error", msg |-> msg]

\* The closure variables and the file system before any hook has run.
HookIdle ==
  /\ astroHeaders = Undefined
  /\ setupDone = FALSE
  /\ pc = "idle"
  /\ builds = 0
  /\ startHeaders = Undefined
  /\ routes = <<>>
  /\ patchInput = <<>>
  /\ patchState = "none"
  /\ htmlFiles = <<>>
  /\ nextFile = 1
  /\ mergedHashSets = createEmptyCspHashSets
  /\ hashSetsByRoute = <<>>
  /\ totals = createEmptyCspHashSets
  /\ report = ZeroReport
  /\ log = <<>>
  /\ fsReads = 0
  /\ headersFile = [exists |-> FALSE, content |-> <<>>]
  /\ writes = 0
  /\ outcome = "none"

\* No call of a pure function is followed.
NoCall == [fn |-> "", args |-> <<>>, returned |-> <<>>]

\* The integration as constructed for an instance over a build directory.
Constructed(instance, dir) ==
  /\ cspOptions = instance.csp
  /\ workersEnabled = instance.workers
  /\ buildDir = dir
  /\ HookIdle

Init ==
  /\ \E instance \in InstanceChoices : \E dir \in BuildDirs : Constructed(instance, dir)
  /\ call = NoCall

\* astro:config:setup with config.server.headers = headers.
ConfigSetup(headers) ==
  /\ pc = "idle"
  /\ ~setupDone
  /\ builds = 0
  /\ setupDone' = TRUE
  /\ log' = <<Info("Setting up integration")>>
  /\ astroHeaders' = IF headers.defined THEN headers ELSE astroHeaders
  /\ UNCHANGED <<call, options, buildDir, pc, builds, startHeaders, routes, patchInput, patchState,
                 scan, report, fsReads, headersFile, writes, outcome>>

\* astroHeaders after the hook changed routes: a nested configuration is
\* the routes object itself; a flat one is the headers object of "/*",
\* which only the global loop of patchRoutesCsp writes to.
AliasedHeaders(headers, newRoutes) ==
  IF ~SampleValueIsString(headers.value)
  THEN [defined |-> TRUE, value |-> newRoutes]
  ELSE IF cspOptions.mode = "global"
       THEN [defined |-> TRUE, value |-> newRoutes[RouteIndex(newRoutes, "/*")].headers]
       ELSE headers

\* astro:build:done up to its first file-system call.
BuildStart ==
  /\ pc = "idle"
  /\ builds < MaxBuilds
  /\ startHeaders' = astroHeaders
  /\ fsReads' = 0
  /\ writes' = 0
  /\ htmlFiles' = <<>>
  /\ nextFile' = 1
  /\ mergedHashSets' = createEmptyCspHashSets
  /\ hashSetsByRoute' = <<>>
  /\ totals' = createEmptyCspHashSets
  /\ IF ~astroHeaders.defined \/ isEmptyObject(astroHeaders.value)
     THEN /\ log' = <<Info("Running build hook"), Warn("No headers configuration found")>>
          /\ outcome' = "returned"
          /\ builds' = builds + 1
          /\ routes' = <<>>
          /\ patchInput' = <<>>
          /\ patchState' = "none"
          /\ report' = ZeroReport
          /\ UNCHANGED <<astroHeaders, pc>>
     ELSE LET parsed == parseHeaders(astroHeaders.value)
              normalized == normalizeWorkersWildcardRoute(parsed, workersEnabled)
              running == <<Info("Running build hook")>>
                         \o (IF WorkersMergeWarns(parsed, workersEnabled)
                             THEN <<Warn("Both * and /* routes were found")>> ELSE <<>>)
          IN  /\ routes' = normalized
              /\ patchInput' = normalized
              /\ astroHeaders' = IF SampleValueIsString(astroHeaders.value)
                                 THEN astroHeaders
                                 ELSE [defined |-> TRUE, value |-> normalized]
              /\ outcome' = "none"
              /\ report' = ZeroReport
              /\ UNCHANGED builds
              /\ IF cspOptions.autoHashes /\ hasEnabledHashCategory(cspOptions)
                 THEN IF Len(CspRoutesOf(normalized)) = 0
                      THEN /\ patchState' = "completed"
                           /\ log' = Append(running, InfoWith("CSP auto-hash patch completed", ZeroReport))
                           /\ pc' = "enforce"
                      ELSE /\ patchState' = "entered"
                           /\ log' = running
                           /\ pc' = "list"
                 ELSE /\ patchState' = "skipped"
                      /\ log' = IF cspOptions.autoHashes
                                THEN Append(running, Warn("No hash categories are enabled"))
                                ELSE running
                      /\ pc' = "enforce"
  /\ UNCHANGED <<call, options, buildDir, setupDone, headersFile>>

\* The directories readdir is called on: the build directory and every
\* directory on the path of one of its files.
RECURSIVE ParentDirs(_, _)
ParentDirs(path, from) ==
  LET slash == IndexOfFrom(path, "/", from)
  IN  IF slash = 0 THEN {} ELSE {SubSeq(path, 1, slash - 1)} \cup ParentDirs(path, slash + 1)

Directories(dir) == {""} \cup UNION {ParentDirs(dir[i].path, 1) : i \in 1..Len(dir)}

\* collectHtmlFiles succeeds.
ListFiles ==
  /\ pc = "list"
  /\ htmlFiles' = SelectSeq(buildDir, LAMBDA f : EndsWith(f.path, ".html"))
  /\ fsReads' = fsReads + Cardinality(Directories(buildDir))
  /\ pc' = IF htmlFiles' = <<>> THEN "patch" ELSE "read"
  /\ UNCHANGED <<call, options, buildDir, astroHeaders, setupDone, builds, startHeaders, routes,
                 patchInput, patchState, nextFile, mergedHashSets, hashSetsByRoute, totals,
                 report, log, headersFile, writes, outcome>>

\* ScanFails that leaves the routes patched with the hashes collected so far.
ScanFailsHalfPatched ==
  /\ pc \in {"list", "read"}
  /\ fsReads' = fsReads + 1
  /\ patchState' = "failed"
  /\ log' = Append(log, Error("Failed to patch CSP hashes"))
  /\ pc' = "enforce"
  /\ routes' = (IF cspOptions.mode = "route"
                THEN PatchRoutesByRoute(routes, [i \in 1..Len(hashSetsByRoute) |->
                       [route |-> hashSetsByRoute[i].route,
                        sources |-> buildCspHashSources(hashSetsByRoute[i].hashSets)]], cspOptions)
                ELSE PatchRoutesGlobal(routes, buildCspHashSources(mergedHashSets),
                                       cspOptions)).routes
  /\ UNCHANGED <<call, options, buildDir, astroHeaders, setupDone, builds, startHeaders,
                 patchInput, scan, report, headersFile, writes, outcome>>

\* A readdir of collectHtmlFiles or a readFile throws: patchRoutesCsp
\* rejects and the hook's catch logs the error.
ScanFails ==
  /\ pc \in {"list", "read"}
  /\ fsReads' = fsReads + 1
  /\ patchState' = "failed"
  /\ log' = Append(log, Error("Failed to patch CSP hashes"))
  /\ pc' = "enforce"
  /\ UNCHANGED <<call, options, buildDir, astroHeaders, setupDone, builds, startHeaders, routes,
                 patchInput, scan, report, headersFile, writes, outcome>>

\* hashSetsByRoute after one file of collectCspHashesByRouteFromBuild.
AddToRoute(byRoute, route, fileHashSets) ==
  IF \E i \in 1..Len(byRoute) : byRoute[i].route = route
  THEN [i \in 1..Len(byRoute) |->
          IF byRoute[i].route = route
          THEN [route |-> route, hashSets |-> mergeCspHashSets(byRoute[i].hashSets, fileHashSets)]
          ELSE byRoute[i]]
  ELSE Append(byRoute, [route |-> route, hashSets |-> fileHashSets])

\* One iteration of the loop over htmlFiles, in either mode.
ReadFile ==
  /\ pc = "read"
  /\ LET file == htmlFiles[nextFile]
         fileHashSets == collectCspHashesFromHtml(file.html, cspOptions)
     IN  IF cspOptions.mode = "route"
         THEN /\ hashSetsByRoute' = AddToRoute(hashSetsByRoute, mapHtmlFileToRoute(file.path), fileHashSets)
              /\ totals' = mergeCspHashSets(totals, fileHashSets)
              /\ UNCHANGED mergedHashSets
         ELSE /\ mergedHashSets' = mergeCspHashSets(mergedHashSets, fileHashSets)
              /\ UNCHANGED <<hashSetsByRoute, totals>>
  /\ fsReads' = fsReads + 1
  /\ nextFile' = nextFile + 1
  /\ pc' = IF nextFile = Len(htmlFiles) THEN "patch" ELSE "read"
  /\ UNCHANGED <<call, options, buildDir, astroHeaders, setupDone, builds, startHeaders, routes,
                 patchInput, patchState, htmlFiles, report, log, headersFile, writes, outcome>>

\* sourcesByRoute with the sources of the first route under every route.
SourcesByRouteOfFirst(byRoute) ==
  [i \in 1..Len(byRoute) |->
     [route |-> byRoute[i].route, sources |-> buildCspHashSources(byRoute[1].hashSets)]]

\* The sourcesByRoute Map of collectCspHashesByRouteFromBuild.
SourcesByRoute(byRoute) ==
  [i \in 1..Len(byRoute) |->
     [route |-> byRoute[i].route, sources |-> buildCspHashSources(byRoute[i].hashSets)]]

\* patchRoutesCsp once the hashes are collected, and the hook's report.
PatchRoutes ==
  /\ pc = "patch"
  /\ LET patched == IF cspOptions.mode = "route"
                    THEN PatchRoutesByRoute(routes, SourcesByRoute(hashSetsByRoute), cspOptions)
                    ELSE PatchRoutesGlobal(routes, buildCspHashSources(mergedHashSets), cspOptions)
         counts == buildCspHashSources(IF cspOptions.mode = "route" THEN totals ELSE mergedHashSets)
         result == [inlineStyleHashes |-> counts.inlineStyleHashes,
                    styleAttributeHashes |-> counts.styleAttributeHashes,
                    inlineScriptHashes |-> counts.inlineScriptHashes,
                    updatedCspHeaders |-> patched.updatedCspHeaders]
     IN  /\ routes' = patched.routes
         /\ astroHeaders' = AliasedHeaders(astroHeaders, patched.routes)
         /\ report' = result
         /\ log' = Append(log, InfoWith("CSP auto-hash patch completed", result))
  /\ patchState' = "completed"
  /\ pc' = "enforce"
  /\ UNCHANGED <<call, options, buildDir, setupDone, builds, startHeaders, patchInput, scan,
                 fsReads, headersFile, writes, outcome>>

\* enforceHeaderLineLengthLimit and generateHeadersContent.
Enforce ==
  /\ pc = "enforce"
  /\ LET verdict == enforceHeaderLineLengthLimit(routes, cspOptions)
         exceeding == ExceedingLines(routes, cspOptions.maxHeaderLineLength)
     IN  IF verdict = "throw"
         THEN /\ outcome' = "Error: Header line length overflow"
              /\ builds' = builds + 1
              /\ pc' = "idle"
              /\ UNCHANGED log
         ELSE /\ log' = IF verdict = "warn"
                        THEN Append(log, WarnWith("Header line length overflow",
                                                     <<exceeding[1], cspOptions.maxHeaderLineLength,
                                                       Len(exceeding)>>))
                        ELSE log
              /\ pc' = "write"
              /\ UNCHANGED <<outcome, builds>>
  /\ UNCHANGED <<call, options, buildDir, astroHeaders, setupDone, startHeaders, routes, patchInput,
                 patchState, scan, report, fsReads, headersFile, writes>>

\* fs.writeFile succeeds.
WriteFile ==
  /\ pc = "write"
  /\ headersFile' = [exists |-> TRUE, content |-> generateHeadersContent(routes)]
  /\ writes' = writes + 1
  /\ log' = Append(log, Info("Successfully created _headers"))
  /\ outcome' = "returned"
  /\ builds' = builds + 1
  /\ pc' = "idle"
  /\ UNCHANGED <<call, options, buildDir, astroHeaders, setupDone, startHeaders, routes, patchInput,
                 patchState, scan, report, fsReads>>

\* fs.writeFile rejects and the hook lets the rejection through.
WriteFileFailsThrowing ==
  /\ pc = "write"
  /\ writes' = writes + 1
  /\ outcome' = "Error: writeFile"
  /\ builds' = builds + 1
  /\ pc' = "idle"
  /\ UNCHANGED <<call, options, buildDir, astroHeaders, setupDone, startHeaders, routes, patchInput,
                 patchState, scan, report, fsReads, headersFile, log>>

\* fs.writeFile rejects.
WriteFileFails ==
  /\ pc = "write"
  /\ writes' = writes + 1
  /\ log' = Append(log, Error("Failed to write _headers file"))
  /\ outcome' = "returned"
  /\ builds' = builds + 1
  /\ pc' = "idle"
  /\ UNCHANGED <<call, options, buildDir, astroHeaders, setupDone, startHeaders, routes, patchInput,
                 patchState, scan, report, fsReads, headersFile>>

Next ==
  \/ \E headers \in {Undefined} \cup {[defined |-> TRUE, value |-> h] : h \in HeaderConfigs} :
       ConfigSetup(headers)
  \/ BuildStart
  \/ ListFiles
  \/ ScanFails
  \/ ReadFile
  \/ PatchRoutes
  \/ Enforce
  \/ WriteFile
  \/ WriteFileFails

Spec == Init /\ [][Next]_vars

(***************************************************************************)
(* Calls of the pure functions: merger, patch of one value, codec          *)
(***************************************************************************)

\* The most tokens of a source list handed to mergeCspSources.
MaxSources == 2

\* The most lexemes of a CSP string handed to parseCspDirectives.
MaxLexemes == 5

SeqsUpTo(S, n) == UNION {[1..k -> S] : k \in 0..n}

\* The tokens of the source lists: the empty string, the two keywords the
\* merger treats, another keyword and a hash.
SourceTokens == {"", "'none'", "'unsafe-inline'", "'self'", "'sha256-a'"}

MergeCalls ==
  {[fn |-> "mergeCspSources",
    args |-> [existingSources |-> a, additionalSources |-> b, stripUnsafeInline |-> strip],
    returned |-> <<>>] :
     a \in SeqsUpTo(SourceTokens, MaxSources),
     b \in SeqsUpTo(SourceTokens, MaxSources),
     strip \in BOOLEAN}

\* Raw CSP header values:
\*   the empty value
\*   no directive that is patched
\*   src/src/integration.test.ts:218
\*   a tab after the directive name
\*   a directive name that occurs twice
\*   white space and empty segments
\*   a directive name in upper case
\*   style-src-attr with 'unsafe-hashes' already
\*   directives without value
\*   a value that already lists the hash of "body{color:red}"
RawCspValues ==
  {<<>>,
   <<"default-src", " ", "'self'">>,
   <<"default-src", " ", "'self'", ";", " ", "style-src", " ", "'self'", " ", "'unsafe-inline'", ";", " ", "style-src-attr", " ", "'none'", ";", " ", "script-src", " ", "'self'", " ", "'unsafe-inline'">>,
   <<"style-src", "\t", "'unsafe-inline'">>,
   <<"style-src", " ", "'none'", ";", " ", "img-src", " ", "data:", ";", " ", "style-src", " ", "'unsafe-inline'">>,
   <<" ", "style-src", " ", " ", "'self'", " ", ";", ";", " ">>,
   <<"Style-Src", " ", "'none'">>,
   <<"style-src-attr", " ", "'unsafe-hashes'", " ", "'unsafe-inline'", ";", " ", "script-src", " ", "'none'">>,
   <<"style-src", ";", " ", "script-src", ";">>,
   <<"style-src", " ", "'self'", " ", "'" \o RedStyleHash \o "'", ";">>}

\* The CspHashSources of a build: none, one style element, every category,
\* style attributes only.
HashSourceChoices ==
  {buildCspHashSources(sets) : sets \in
     {createEmptyCspHashSets,
      [createEmptyCspHashSets EXCEPT !.styleElementHashes = {RedStyleHash}],
      [styleElementHashes |-> {RedStyleHash, hashSha256("body{color:blue}")},
       styleAttributeHashes |-> {hashSha256("color:red"), hashSha256("a&b")},
       scriptElementHashes |-> {hashSha256("console.log('hi')")}],
      [createEmptyCspHashSets EXCEPT
         !.styleAttributeHashes = {hashSha256("a&amp;b"), hashSha256("a&b")}]}}

PatchCalls ==
  {[fn |-> "patchCspValue",
    args |-> [rawCspValue |-> raw, sources |-> sources,
              cspOptions |-> PatchOptions(categories, strip, "global")],
    returned |-> <<>>] :
     raw \in RawCspValues,
     sources \in HashSourceChoices,
     categories \in HashCategoryChoices \cup {<<FALSE, TRUE, TRUE>>},
     strip \in BOOLEAN}

IsWordLexeme(l) == ~IsWs(l) /\ l # ";"

\* A Text holds maximal words: no two word lexemes are adjacent.
IsText(t) == \A i \in 1..(Len(t) - 1) : ~(IsWordLexeme(t[i]) /\ IsWordLexeme(t[i + 1]))

\* CSP strings: every string of up to MaxLexemes lexemes over two words,
\* the space, the tab and the semicolon, and three longer ones.
CspStrings ==
  {t \in SeqsUpTo({"img-src", "data:", " ", "\t", ";"}, MaxLexemes) : IsText(t)}
  \cup
  {<<"img-src", " ", "data:", ";", " ", "img-src", " ", "'self'", ";", " ", "font-src">>,
   <<"font-src", " ", " ", "data:", " ", " ", "'self'", " ", ";", ";", " ", "img-src", "\t", "data:", " ", ";">>,
   <<"a", " ", "b", " ", "c", ";", "a", ";", "b", " ", "c">>}

CodecCalls ==
  {[fn |-> "parseCspDirectives", args |-> [csp |-> csp], returned |-> <<>>] : csp \in CspStrings}

\* Paths relative to the build directory.
RelativePaths ==
  {"index.html", "about/index.html", "about.html", "a/b/index.html", "a/b.html", "a*.html",
   ".html", "index.html/index.html", "xindex.html", "about/", "style.css", "index.htm",
   "about.html/data.json"}

MapCalls ==
  {[fn |-> "mapHtmlFileToRoute", args |-> [relativePath |-> path], returned |-> <<>>] :
     path \in RelativePaths}

\* A file whose name is its extension: its route is that of index.html.
DotHtml == [path |-> ".html", html |-> <<Style("body{color:blue}")>>]

\* The HTML files of a build directory, in the order of the walk, and the
\* hash categories that are enabled.
CollectCalls ==
  {[fn |-> "collectCspHashesByRouteFromBuild",
    args |-> [htmlFiles |-> SelectSeq(dir, LAMBDA f : EndsWith(f.path, ".html")),
              cspOptions |-> PatchOptions(categories, TRUE, "route")],
    returned |-> <<>>] :
     dir \in BuildDirs \cup {<<IndexHtml, AboutHtml, DotHtml>>},
     categories \in HashCategoryChoices}

\* The loop of collectCspHashesByRouteFromBuild over htmlFiles: hashSetsByRoute.
RECURSIVE HashSetsByRouteOf(_, _, _)
HashSetsByRouteOf(files, hashOptions, byRoute) ==
  IF files = <<>> THEN byRoute
  ELSE HashSetsByRouteOf(Tail(files), hashOptions,
         AddToRoute(byRoute, mapHtmlFileToRoute(Head(files).path),
                    collectCspHashesFromHtml(Head(files).html, hashOptions)))

\* An attribute of an opening tag as the markup writes it: its name, the
\* text between name and value, the quote character and the value.
Attribute(name, value) == [name |-> name, eq |-> "=", quote |-> "\"", value |-> value]

\* The text of an opening tag after the tag name: a space before each attribute.
RECURSIVE OpeningTagOf(_)
OpeningTagOf(attributes) ==
  IF attributes = <<>> THEN ""
  ELSE " " \o Head(attributes).name \o Head(attributes).eq \o Head(attributes).quote
       \o Head(attributes).value \o Head(attributes).quote \o OpeningTagOf(Tail(attributes))

IntegrityA == "sha256-AAAAAAAAAAAAAAAAAAAAAAAAAAAAAAAAAAAAAAAAAAA="

IntegrityB == "sha256-47DEQpj8HBSa+/TImW+5JCeuQeRkm5NMpJWZG3hSuFU="

\* Inline and external scripts and style elements, with and without an
\* integrity attribute, with bodies that are empty, blank or not.
MarkupElements ==
  {[tag |-> "script", attributes |-> <<>>, content |-> "console.log('hi')"],
   [tag |-> "script", attributes |-> <<>>, content |-> " "],
   [tag |-> "script", attributes |-> <<>>, content |-> ""],
   [tag |-> "script", attributes |-> <<Attribute("src", "x.js")>>, content |-> ""],
   [tag |-> "script", attributes |-> <<Attribute("src", "x.js")>>,
    content |-> "console.log('hi')"],
   [tag |-> "script",
    attributes |-> <<Attribute("src", "x.js"), Attribute("integrity", IntegrityA)>>,
    content |-> ""],
   [tag |-> "script",
    attributes |-> <<Attribute("integrity", IntegrityA),
                     [name |-> "SRC", eq |-> " = ", quote |-> "'", value |-> "x.js"]>>,
    content |-> "console.log('about')"],
   [tag |-> "script",
    attributes |-> <<Attribute("type", "module"),
                     [name |-> "Integrity", eq |-> " = ", quote |-> "'", value |-> IntegrityB]>>,
    content |-> "console.log('hi')"],
   [tag |-> "script", attributes |-> <<Attribute("integrity", IntegrityB)>>, content |-> ""],
   [tag |-> "script", attributes |-> <<Attribute("integrity", "sha256-abc")>>,
    content |-> "console.log('about')"],
   [tag |-> "script", attributes |-> <<Attribute("data-src", "x.js")>>,
    content |-> "console.log('about')"],
   [tag |-> "style", attributes |-> <<>>, content |-> "body{color:red}"],
   [tag |-> "style", attributes |-> <<>>, content |-> ""],
   [tag |-> "style", attributes |-> <<>>, content |-> " "],
   [tag |-> "style", attributes |-> <<Attribute("integrity", IntegrityA)>>,
    content |-> "body{color:blue}"],
   [tag |-> "style", attributes |-> <<Attribute("integrity", "sha256-abc")>>,
    content |-> "body{color:blue}"],
   [tag |-> "style", attributes |-> <<Attribute("src", "x.css")>>,
    content |-> "body{color:red}"]}

\* Documents of one or two elements, under each choice of hash categories.
ExtractCalls ==
  {[fn |-> "collectCspHashesFromHtml",
    args |-> [elements |-> elements, cspOptions |-> PatchOptions(categories, TRUE, "global")],
    returned |-> <<>>] :
     elements \in {<<e>> : e \in MarkupElements}
                    \cup {<<d, e>> : d \in MarkupElements, e \in MarkupElements},
     categories \in HashCategoryChoices}

\* html.matchAll(STYLE_TAG_REGEX) and html.matchAll(SCRIPT_TAG_REGEX) on the
\* markup of the elements.
MatchesOf(elements) ==
  [i \in 1..Len(elements) |->
     ElementMatch(elements[i].tag, OpeningTagOf(elements[i].attributes), elements[i].content)]

\* collectCspHashesFromHtml(html, cspOptions).
CallExtract ==
  /\ call.fn = "collectCspHashesFromHtml"
  /\ Len(call.returned) = 0
  /\ call' = [call EXCEPT !.returned =
                <<collectCspHashesFromHtml(MatchesOf(call.args.elements), call.args.cspOptions)>>]
  /\ UNCHANGED hook

\* mapHtmlFileToRoute(buildDir, htmlFile).
CallMapFile ==
  /\ call.fn = "mapHtmlFileToRoute"
  /\ Len(call.returned) = 0
  /\ call' = [call EXCEPT !.returned = <<mapHtmlFileToRoute(call.args.relativePath)>>]
  /\ UNCHANGED hook

\* The hashSetsByRoute of collectCspHashesByRouteFromBuild(buildDir, cspOptions).
CallCollect ==
  /\ call.fn = "collectCspHashesByRouteFromBuild"
  /\ Len(call.returned) = 0
  /\ call' = [call EXCEPT !.returned =
                <<HashSetsByRouteOf(call.args.htmlFiles, call.args.cspOptions, <<>>)>>]
  /\ UNCHANGED hook

\* mergeCspSources(existingSources, additionalSources, { stripUnsafeInline }).
CallMerge ==
  /\ call.fn = "mergeCspSources"
  /\ Len(call.returned) = 0
  /\ call' = [call EXCEPT !.returned =
                <<mergeCspSources(call.args.existingSources, call.args.additionalSources,
                                  call.args.stripUnsafeInline)>>]
  /\ UNCHANGED hook

\* mergeCspSources(splitCspSources(merged), additionalSources, { stripUnsafeInline }).
CallMergeAgain ==
  /\ call.fn = "mergeCspSources"
  /\ Len(call.returned) = 1
  /\ call' = [call EXCEPT !.returned =
                Append(@, mergeCspSources(splitCspSources(call.returned[1]),
                                          call.args.additionalSources,
                                          call.args.stripUnsafeInline))]
  /\ UNCHANGED hook

\* patchCspValue(rawCspValue, sources, cspOptions).
CallPatch ==
  /\ call.fn = "patchCspValue"
  /\ Len(call.returned) = 0
  /\ call' = [call EXCEPT !.returned =
                <<patchCspValue(call.args.rawCspValue, call.args.sources, call.args.cspOptions)>>]
  /\ UNCHANGED hook

\* patchCspValue of the value patchCspValue returned, with the same sources.
CallPatchAgain ==
  /\ call.fn = "patchCspValue"
  /\ Len(call.returned) = 1
  /\ call' = [call EXCEPT !.returned =
                Append(@, patchCspValue(call.returned[1], call.args.sources, call.args.cspOptions))]
  /\ UNCHANGED hook

\* parseCspDirectives(csp).
CallParse ==
  /\ call.fn = "parseCspDirectives"
  /\ Len(call.returned) = 0
  /\ call' = [call EXCEPT !.returned = <<parseCspDirectives(call.args.csp)>>]
  /\ UNCHANGED hook

\* serializeCspDirectives of the parsed directives.
CallSerialize ==
  /\ call.fn = "parseCspDirectives"
  /\ Len(call.returned) = 1
  /\ call' = [call EXCEPT !.returned = Append(@, serializeCspDirectives(call.returned[1]))]
  /\ UNCHANGED hook

\* parseCspDirectives of the serialized string.
CallParseAgain ==
  /\ call.fn = "parseCspDirectives"
  /\ Len(call.returned) = 2
  /\ call' = [call EXCEPT !.returned = Append(@, parseCspDirectives(call.returned[2]))]
  /\ UNCHANGED hook

CspInit ==
  /\ Constructed([csp |-> DEFAULT_CSP_OPTIONS, workers |-> FALSE], <<>>)
  /\ \/ call \in MergeCalls
     \/ call \in PatchCalls
     \/ call \in CodecCalls
     \/ call \in MapCalls
     \/ call \in CollectCalls
     \/ call \in ExtractCalls

CspNext ==
  \/ CallMerge
  \/ CallMergeAgain
  \/ CallPatch
  \/ CallPatchAgain
  \/ CallParse
  \/ CallSerialize
  \/ CallParseAgain
  \/ CallMapFile
  \/ CallCollect
  \/ CallExtract

CspSpec == CspInit /\ [][CspNext]_vars

(***************************************************************************)
(* Vocabulary of the properties                                            *)
(***************************************************************************)

\* The last build hook has ended and nothing has happened since.
HookEnded == pc = "idle" /\ builds > 0

\* The configuration the hook started from was absent or an empty object.
NoConfiguration == ~startHeaders.defined \/ startHeaders.value = <<>>

\* The hook is past its call of patchRoutesCsp, or never makes it.
PastPatch == (pc \in {"enforce", "write"} \/ HookEnded) /\ ~NoConfiguration

\* The hook called writeFile and the call succeeded.
WroteFile ==
  /\ HookEnded
  /\ writes = 1
  /\ log # <<>>
  /\ log[Len(log)] = Info("Successfully created _headers")

\* patchRoutesCsp ran to its end after collecting the hashes of the build.
PatchedInMode(mode) ==
  PastPatch /\ patchState = "completed" /\ cspOptions.mode = mode /\ fsReads > 0

IsCspName(name) == ToLowerCase(name) = "content-security-policy"

HasCspHeader(headers) == \E i \in 1..Len(headers) : IsCspName(headers[i].name)

\* The value of the first header of the entry whose name is, in any
\* casing, content-security-policy.
CspValueOf(headers) ==
  headers[CHOOSE i \in 1..Len(headers) :
            /\ IsCspName(headers[i].name)
            /\ \A j \in 1..(i - 1) : ~IsCspName(headers[j].name)].value

RouteKeys(map) == [i \in 1..Len(map) |-> map[i].route]

HasRoute(map, key) == \E i \in 1..Len(map) : map[i].route = key

HeadersAt(map, key) == map[CHOOSE i \in 1..Len(map) : map[i].route = key].headers

IsWildcard(route) == \E i \in 1..Len(route) : SubSeq(route, i, i) = "*"

\* The hash tokens of a header value.
HashTokens(value) == {t \in SeqToSet(value) : StartsWith(t, "'sha256-")}

Quoted(hashes) == {"'" \o h \o "'" : h \in hashes}

\* The tokens of directive `name` in a CSP value; none if it has no such directive.
DirectiveTokens(value, name) ==
  LET parsed == parseCspDirectives(StripTrailingSemicolons(Trim(value)))
  IN  IF MapHas(parsed.directives, <<name>>)
      THEN SeqToSet(splitCspSources(MapGet(parsed.directives, <<name>>)))
      ELSE {}

\* The HTML files of the build directory and what the extractor finds in them.
HtmlFilesOf(dir) == {dir[i] : i \in {j \in 1..Len(dir) : EndsWith(dir[j].path, ".html")}}

FoundIn(files) ==
  [style |-> UNION {collectCspHashesFromHtml(f.html, cspOptions).styleElementHashes : f \in files},
   attr |-> UNION {collectCspHashesFromHtml(f.html, cspOptions).styleAttributeHashes : f \in files},
   script |-> UNION {collectCspHashesFromHtml(f.html, cspOptions).scriptElementHashes : f \in files}]

AllFound(found) == found.style \cup found.attr \cup found.script

\* The built routes, and the files attributed to one of them.
BuiltRoutes == {mapHtmlFileToRoute(f.path) : f \in HtmlFilesOf(buildDir)}

FilesOfRoute(builtRoute) == {f \in HtmlFilesOf(buildDir) : mapHtmlFileToRoute(f.path) = builtRoute}

SameCanonicalRoute(a, b) == NormalizeRoute(a) = NormalizeRoute(b)

\* The rendering of a RouteHeaderMap: per route its line and its header
\* lines, each ended by a newline, the routes' blocks joined by a newline.
RenderedHeader(h) == <<" ", " ", h.name \o ":", " ">> \o h.value \o <<"\n">>

RECURSIVE RenderedHeaders(_, _)
RenderedHeaders(headers, i) ==
  IF i > Len(headers) THEN <<>> ELSE RenderedHeader(headers[i]) \o RenderedHeaders(headers, i + 1)

RECURSIVE RenderedBlocks(_, _)
RenderedBlocks(map, i) ==
  IF i > Len(map) THEN <<>>
  ELSE <<map[i].route, "\n">> \o RenderedHeaders(map[i].headers, 1)
       \o (IF i < Len(map) THEN <<"\n">> ELSE <<>>) \o RenderedBlocks(map, i + 1)

Rendering(map) == RenderedBlocks(map, 1)

IsPrefix(s, t) == Len(s) <= Len(t) /\ SubSeq(t, 1, Len(s)) = s

(***************************************************************************)
(* C1                                                                      *)
(***************************************************************************)

\* The route keys the configuration names: "/*" alone for a flat one.
ConfiguredKeys ==
  IF "value" \in DOMAIN startHeaders.value[1]
  THEN <<"/*">>
  ELSE [i \in 1..Len(startHeaders.value) |-> startHeaders.value[i].route]

\* C1 as stated: the file written is the rendering of the RouteHeaderMap, a
\* flat configuration giving the single route "/*" with all its headers and
\* a nested one exactly one block per configured route.
C1_OneBlockPerConfiguredRoute ==
  WroteFile =>
    /\ headersFile.content = Rendering(routes)
    /\ RouteKeys(routes) = ConfiguredKeys
    /\ ("value" \in DOMAIN startHeaders.value[1] =>
          [i \in 1..Len(routes[1].headers) |-> routes[1].headers[i].name]
            = [i \in 1..Len(startHeaders.value) |-> startHeaders.value[i].name])

\* The configured keys once workers mode renamed "*" to "/*".
KeysAfterWorkers ==
  LET keys == ConfiguredKeys
      hasStar == \E i \in 1..Len(keys) : keys[i] = "*"
      hasSlashStar == \E i \in 1..Len(keys) : keys[i] = "/*"
      rest == SelectSeq(keys, LAMBDA k : k # "*")
  IN  IF workersEnabled /\ hasStar
      THEN IF hasSlashStar THEN rest ELSE Append(rest, "/*")
      ELSE keys

\* C1, amended: whenever the build hook writes _headers, the content is
\* exactly the rendering of the final RouteHeaderMap in key order (route
\* line, one line "  <name>: <value>" per header, an empty line, joined by
\* newlines). The map handed to the patcher is the single route "/*"
\* holding all headers of a flat configuration, or the configured routes of
\* a nested one with "*" renamed to or merged into "/*" in workers mode; the
\* final map keeps these keys in order and, in route mode only, may end
\* with further blocks, one per built route an entry was synthesized for.
C1_RenderingOfFinalMap ==
  WroteFile =>
    /\ headersFile.content = Rendering(routes)
    /\ RouteKeys(patchInput) = KeysAfterWorkers
    /\ ("value" \in DOMAIN startHeaders.value[1] =>
          patchInput = <<[route |-> "/*", headers |-> startHeaders.value]>>)
    /\ IsPrefix(RouteKeys(patchInput), RouteKeys(routes))
    /\ \A i \in (Len(patchInput) + 1)..Len(routes) :
         /\ PatchedInMode("route")
         /\ routes[i].route \in BuiltRoutes
         /\ Len(routes[i].headers) = 1

\* A file is written for a flat configuration in route mode with blocks synthesized.
C1_Witness ==
  /\ WroteFile
  /\ "value" \in DOMAIN startHeaders.value[1]
  /\ Len(routes) > 1
  /\ Len(startHeaders.value) > 1

(***************************************************************************)
(* C2                                                                      *)
(***************************************************************************)

\* C2: a build hook that finds no header configuration (none captured at
\* setup, or an empty object) logs exactly the "No headers configuration
\* found" warning after its start message, reads nothing from the build
\* directory, never writes _headers and returns without throwing.
C2_NoConfigurationSkips ==
  (HookEnded /\ NoConfiguration) =>
    /\ log = <<Info("Running build hook"), Warn("No headers configuration found")>>
    /\ fsReads = 0
    /\ writes = 0
    /\ ~headersFile.exists
    /\ outcome = "returned"

\* The hook ended on an empty configuration object captured at setup.
C2_Witness ==
  /\ HookEnded
  /\ setupDone
  /\ startHeaders.defined
  /\ startHeaders.value = <<>>
  /\ Len(log) = 2

(***************************************************************************)
(* C3                                                                      *)
(***************************************************************************)

ScanCondition ==
  /\ cspOptions.autoHashes
  /\ cspOptions.hashStyleElements \/ cspOptions.hashStyleAttributes \/ cspOptions.hashInlineScripts
  /\ \E i \in 1..Len(patchInput) : HasCspHeader(patchInput[i].headers)

\* C3: the build directory is read only if autoHashes is on, a hash
\* category is enabled and some route has a header named, in any casing,
\* content-security-policy; otherwise nothing is read, the counts the
\* patcher reports (if entered) are all zero, and the map that is checked
\* and written is the configured one, every value verbatim.
C3_ScanOnlyWhenNeeded ==
  /\ (fsReads > 0 => ScanCondition)
  /\ (PastPatch /\ ~ScanCondition) =>
       /\ fsReads = 0
       /\ routes = patchInput
       /\ report = ZeroReport
       /\ (patchState = "completed" =>
             InfoWith("CSP auto-hash patch completed", ZeroReport) \in SeqToSet(log))
       /\ (WroteFile => headersFile.content = Rendering(patchInput))

\* The patcher was entered for a map without a CSP header and the file was written.
C3_Witness ==
  /\ WroteFile
  /\ patchState = "completed"
  /\ ~ScanCondition
  /\ fsReads = 0
  /\ Len(buildDir) > 0

(***************************************************************************)
(* C4                                                                      *)
(***************************************************************************)

\* C4: in global mode, once patchRoutesCsp has run, every route with a CSP
\* header has, for each enabled category, every hash of that category found
\* in any HTML file of the build directory in the corresponding directive
\* (style-src, style-src-attr, script-src).
C4_GlobalUnionInEveryRoute ==
  PatchedInMode("global") =>
    LET found == FoundIn(HtmlFilesOf(buildDir))
    IN  \A i \in 1..Len(routes) :
          HasCspHeader(routes[i].headers) =>
            LET value == CspValueOf(routes[i].headers)
            IN  /\ Quoted(found.style) \subseteq DirectiveTokens(value, "style-src")
                /\ Quoted(found.attr) \subseteq DirectiveTokens(value, "style-src-attr")
                /\ Quoted(found.script) \subseteq DirectiveTokens(value, "script-src")

\* Global mode patched two CSP routes with hashes that come from two files.
C4_Witness ==
  /\ PatchedInMode("global")
  /\ report.inlineStyleHashes >= 2
  /\ report.updatedCspHeaders >= 2
  /\ \E i \in 1..Len(routes) : IsWildcard(routes[i].route) /\ HasCspHeader(routes[i].headers)
  /\ \E i \in 1..Len(routes) : ~IsWildcard(routes[i].route) /\ HasCspHeader(routes[i].headers)

(***************************************************************************)
(* C5                                                                      *)
(***************************************************************************)

\* The values an entry of the final map can have started from: its own
\* configured CSP value, or that of a CSP wildcard route matching it.
StartValues(key) ==
  IF HasRoute(patchInput, key) /\ HasCspHeader(HeadersAt(patchInput, key))
  THEN {CspValueOf(HeadersAt(patchInput, key))}
  ELSE {CspValueOf(patchInput[i].headers) :
          i \in {j \in 1..Len(patchInput) :
                   /\ IsWildcard(patchInput[j].route)
                   /\ HasCspHeader(patchInput[j].headers)}}

C6_WildcardEntriesUntouched ==
  PatchedInMode("route") =>
    \A i \in 1..Len(patchInput) :
      IsWildcard(patchInput[i].route) =>
        /\ HasRoute(routes, patchInput[i].route)
        /\ HeadersAt(routes, patchInput[i].route) = patchInput[i].headers

(***************************************************************************)
(* C7                                                                      *)
(***************************************************************************)

\* C7: in route mode the patch also patches every wildcard CSP route with
\* the aggregate hashes, the union over all built HTML files, so that the
\* wildcard route's CSP value contains every discovered hash.
C7_WildcardsGetAggregateHashes ==
  PatchedInMode("route") =>
    LET found == FoundIn(HtmlFilesOf(buildDir))
    IN  \A i \in 1..Len(routes) :
          (IsWildcard(routes[i].route) /\ HasCspHeader(routes[i].headers)) =>
            LET value == CspValueOf(routes[i].headers)
            IN  /\ Quoted(found.style) \subseteq DirectiveTokens(value, "style-src")
                /\ Quoted(found.attr) \subseteq DirectiveTokens(value, "style-src-attr")
                /\ Quoted(found.script) \subseteq DirectiveTokens(value, "script-src")

(***************************************************************************)
(* C8                                                                      *)
(***************************************************************************)

\* The bucket of a built route, from the files attributed to it.
SourcesOfRoute(builtRoute) ==
  LET found == FoundIn(FilesOfRoute(builtRoute))
  IN  buildCspHashSources([styleElementHashes |-> found.style,
                           styleAttributeHashes |-> found.attr,
                           scriptElementHashes |-> found.script])

HasSources(builtRoute) == AllFound(FoundIn(FilesOfRoute(builtRoute))) # {}

\* No exact route equal to the built route up to trailing slashes is
\* configured with a CSP header.
NoExplicitCsp(builtRoute) ==
  \A i \in 1..Len(patchInput) :
    (~IsWildcard(patchInput[i].route) /\ SameCanonicalRoute(patchInput[i].route, builtRoute))
      => ~HasCspHeader(patchInput[i].headers)

Templates == WildcardRoutesOf(CspRoutesOf(patchInput))

HasTemplate(builtRoute) == FindTemplate(Templates, builtRoute) # 0

TemplateValue(builtRoute) == Templates[FindTemplate(Templates, builtRoute)].value

\* The template's value patched with the hashes of the built route's bucket.
SeededValue(builtRoute) ==
  patchCspValue(TemplateValue(builtRoute), SourcesOfRoute(builtRoute), cspOptions)

\* The position at which the walk of the build directory first meets a file of the route.
FirstFileOf(builtRoute) ==
  CHOOSE i \in 1..Len(buildDir) :
    /\ buildDir[i] \in FilesOfRoute(builtRoute)
    /\ \A j \in 1..(i - 1) : buildDir[j] \notin FilesOfRoute(builtRoute)

Seedable(builtRoute) ==
  /\ HasSources(builtRoute)
  /\ HasTemplate(builtRoute)
  /\ SeededValue(builtRoute) # TemplateValue(builtRoute)

\* The key the entry of a built route is written under: the first
\* configured exact route equal to it up to trailing slashes, else its own.
EntryKey(builtRoute) ==
  LET same == {i \in 1..Len(patchInput) :
                 /\ ~IsWildcard(patchInput[i].route)
                 /\ SameCanonicalRoute(patchInput[i].route, builtRoute)}
  IN  IF same = {} THEN builtRoute
      ELSE patchInput[CHOOSE i \in same : \A j \in same : i <= j].route

BucketOf(route) ==
  LET same == {b \in BuiltRoutes : SameCanonicalRoute(b, route)}
  IN  IF route \in BuiltRoutes THEN {route}
      ELSE {b \in same : \A other \in same : FirstFileOf(b) <= FirstFileOf(other)}

LineLength(h) == Len(h.name) + StrLen(h.value) + 4

Overflows(map) ==
  \E i \in 1..Len(map) : \E j \in 1..Len(map[i].headers) :
    LineLength(map[i].headers[j]) > cspOptions.maxHeaderLineLength

\* The lines of a text.
RECURSIVE LinesOf(_, _)
LinesOf(text, line) ==
  IF text = <<>> THEN <<line>>
  ELSE IF Head(text) = "\n" THEN <<line>> \o LinesOf(Tail(text), <<>>)
  ELSE LinesOf(Tail(text), Append(line, Head(text)))

IsHeaderLine(line) == Len(line) >= 2 /\ line[1] = " " /\ line[2] = " "

\* C10: under overflow "error", whenever a route/header pair of the final
\* map renders to a line longer than maxHeaderLineLength the hook fails
\* with the "Header line length overflow" error and does not write
\* _headers; so the hook reaches its write only with lines within the
\* limit and every _headers file written has only such header lines.
C10_ErrorPolicyBlocksLongLines ==
  cspOptions.overflow = "error" =>
    /\ (HookEnded /\ ~NoConfiguration /\ Overflows(routes)) =>
         /\ outcome = "Error: Header line length overflow"
         /\ writes = 0
    /\ (pc = "write" => ~Overflows(routes))
    /\ (headersFile.exists =>
          \A line \in SeqToSet(LinesOf(headersFile.content, <<>>)) :
            IsHeaderLine(line) => StrLen(line) <= cspOptions.maxHeaderLineLength)

\* The hook failed on a line that patching made too long, after an earlier
\* build had written the file.
C10_Witness ==
  /\ HookEnded
  /\ cspOptions.overflow = "error"
  /\ outcome = "Error: Header line length overflow"
  /\ patchState = "completed"
  /\ ~Overflows(patchInput)
  /\ Overflows(routes)
  /\ headersFile.exists

(***************************************************************************)
(* C11                                                                     *)
(***************************************************************************)

\* The route/header pairs of map whose line is longer than the limit, as
\* positions <<route index, header index>>.
OverlongPairs(map) ==
  {p \in UNION {{<<i, j>> : j \in 1..Len(map[i].headers)} : i \in 1..Len(map)} :
     LineLength(map[p[1]].headers[p[2]]) > cspOptions.maxHeaderLineLength}

\* The first of them in map order.
FirstOverlong(map) ==
  CHOOSE p \in OverlongPairs(map) :
    \A q \in OverlongPairs(map) : p[1] < q[1] \/ (p[1] = q[1] /\ p[2] <= q[2])

OverflowWarnings ==
  SelectSeq(log, LAMBDA e : e.level = "warn" /\ e.msg = "Header line length overflow")

\* The hook has run enforceHeaderLineLengthLimit without throwing.
PastEnforce == ~NoConfiguration /\ (pc = "write" \/ (HookEnded /\ writes = 1))

\* C11: under overflow "warn", when lines of the final map are longer than
\* maxHeaderLineLength the hook logs exactly one warning, which names the
\* first such route and header in map order, the length of that line, the
\* limit and the number of such lines; it does not throw and it writes
\* _headers with the long lines as they are.
C11_WarnPolicyLogsOnceAndWrites ==
  cspOptions.overflow = "warn" =>
    /\ (HookEnded /\ ~NoConfiguration) => (outcome = "returned" /\ writes = 1)
    /\ (PastEnforce /\ Overflows(routes)) =>
         LET first == FirstOverlong(routes)
             header == routes[first[1]].headers[first[2]]
         IN  /\ Len(OverflowWarnings) = 1
             /\ OverflowWarnings[1].data =
                  <<[route |-> routes[first[1]].route, headerName |-> header.name,
                     length |-> LineLength(header)],
                    cspOptions.maxHeaderLineLength,
                    Cardinality(OverlongPairs(routes))>>
    /\ (PastEnforce /\ ~Overflows(routes)) => Len(OverflowWarnings) = 0
    /\ WroteFile => headersFile.content = Rendering(routes)

\* The hook warned once of several long lines, the first of which is not
\* the first header of the map, and wrote the file.
C11_Witness ==
  /\ cspOptions.overflow = "warn"
  /\ WroteFile
  /\ Cardinality(OverlongPairs(routes)) >= 2
  /\ Len(OverflowWarnings) = 1
  /\ FirstOverlong(routes) # <<1, 1>>

(***************************************************************************)
(* C12                                                                     *)
(***************************************************************************)

WriteErrors ==
  SelectSeq(log, LAMBDA e : e.level = "error" /\ e.msg = "Failed to write _headers file")

\* C12: when the write of _headers fails the hook logs one error,
\* "Failed to write _headers file", as its last act: it has called
\* writeFile once and does not call it again, logs no success message,
\* leaves the file as it was and returns without throwing.
C12_WriteFailureIsLogged ==
  /\ Len(WriteErrors) <= 1
  /\ Len(WriteErrors) = 1 =>
       /\ log[Len(log)] = Error("Failed to write _headers file")
       /\ HookEnded
       /\ outcome = "returned"
       /\ writes = 1
       /\ \A i \in 1..Len(log) : log[i].msg # "Successfully created _headers"
       /\ builds = 1 => ~headersFile.exists
  /\ (HookEnded /\ writes = 1) => (Len(WriteErrors) = 1 \/ WroteFile)

\* The write of the second build failed; the file of the first build is still there.
C12_Witness ==
  /\ HookEnded
  /\ Len(WriteErrors) = 1
  /\ builds = 2
  /\ headersFile.exists
  /\ patchState = "completed"

(***************************************************************************)
(* C13                                                                     *)
(***************************************************************************)

PatchErrors ==
  SelectSeq(log, LAMBDA e : e.level = "error" /\ e.msg = "Failed to patch CSP hashes")

\* C13: when the scan of the build directory fails, in either mode, the
\* failure is logged as one error, no header value is changed and no
\* route is added: the map stays as it was handed to the patch; the hook
\* goes on to the length check and, unless that throws, writes _headers
\* with the values as they were before the patch.
C13_ScanFailureLeavesRoutes ==
  patchState = "failed" =>
    /\ routes = patchInput
    /\ report = ZeroReport
    /\ Len(PatchErrors) = 1
    /\ pc \in {"enforce", "write", "idle"}
    /\ \A i \in 1..Len(log) : log[i].msg # "CSP auto-hash patch completed"
    /\ HookEnded =>
         \/ writes = 1
         \/ /\ outcome = "Error: Header line length overflow"
            /\ cspOptions.overflow = "error"
            /\ Overflows(patchInput)
    /\ WroteFile => headersFile.content = Rendering(patchInput)

\* In per-route mode a read failed after hashes had been collected, and
\* the file was written with the policy as it was handed to the patch.
C13_Witness ==
  /\ patchState = "failed"
  /\ WroteFile
  /\ fsReads > 2
  /\ cspOptions.mode = "route"
  /\ \/ mergedHashSets # createEmptyCspHashSets
     \/ totals # createEmptyCspHashSets
  /\ \E i \in 1..Len(patchInput) : HasCspHeader(patchInput[i].headers)

(***************************************************************************)
(* Vocabulary of the properties of the pure functions                      *)
(***************************************************************************)

\* The call followed is one of fn that has returned at least n times.
Returned(fn, n) == call.fn = fn /\ Len(call.returned) >= n

Count(tokens, token) == Cardinality({i \in 1..Len(tokens) : tokens[i] = token})

PositionOf(tokens, token) == CHOOSE i \in 1..Len(tokens) : tokens[i] = token

Without(tokens, token) == SelectSeq(tokens, LAMBDA t : t # token)

HasNonEmpty(tokens) == \E i \in 1..Len(tokens) : tokens[i] # ""

\* The directive map of a header value as patchCspValue reads it.
ParsedOf(value) == parseCspDirectives(StripTrailingSemicolons(Trim(value))).directives

\* The tokens of the directive called name (a Text), in order; none if absent.
TokensOf(value, name) ==
  IF MapHas(ParsedOf(value), name) THEN splitCspSources(MapGet(ParsedOf(value), name)) ELSE <<>>

\* The three patched directives with their category's switch and sources.
Categories(o, sources) ==
  {[name |-> <<"style-src">>, enabled |-> o.hashStyleElements,
    sources |-> sources.styleElementSources],
   [name |-> <<"style-src-attr">>, enabled |-> o.hashStyleAttributes,
    sources |-> sources.styleAttributeSources],
   [name |-> <<"script-src">>, enabled |-> o.hashInlineScripts,
    sources |-> sources.scriptElementSources]}

\* The categories that inject hashes in the call followed.
Injecting ==
  {c \in Categories(call.args.cspOptions, call.args.sources) : c.enabled /\ Len(c.sources) > 0}

(***************************************************************************)
(* C14                                                                     *)
(***************************************************************************)

\* C14 as stated: Merge is idempotent: for every existing list A, every
\* additions list B and either stripUnsafeInline, merging B a second time
\* into the tokens of Merge(A, B) gives Merge(A, B) again.
C14_MergeIdempotent ==
  Returned("mergeCspSources", 2) => call.returned[2] = call.returned[1]

\* The additions hold no token the first loop of the merger drops.
AdditionsSurvive ==
  /\ "'none'" \notin SeqToSet(call.args.additionalSources)
  /\ call.args.stripUnsafeInline => "'unsafe-inline'" \notin SeqToSet(call.args.additionalSources)

\* C14, amended: Merge is idempotent for every existing list A, either
\* stripUnsafeInline and every additions list B that holds no 'none' and,
\* when stripUnsafeInline is set, no 'unsafe-inline':
\* Merge(tokens(Merge(A, B)), B) equals Merge(A, B), same tokens in the same order.
C14_MergeIdempotentOnHashes ==
  (Returned("mergeCspSources", 2) /\ AdditionsSurvive) => call.returned[2] = call.returned[1]

\* Additions were merged twice into a list that held 'none' and a token of the additions.
C14_Witness ==
  /\ Returned("mergeCspSources", 2)
  /\ AdditionsSurvive
  /\ "'none'" \in SeqToSet(call.args.existingSources)
  /\ Len(call.args.additionalSources) = 2
  /\ SeqToSet(call.args.existingSources) \cap SeqToSet(call.args.additionalSources) # {}
  /\ Len(splitCspSources(call.returned[2])) = 2

(***************************************************************************)
(* C15                                                                     *)
(***************************************************************************)

\* C15: Merge(A, B) drops every 'none' that comes from A whenever B holds a
\* non-empty token (a 'none' in the result then comes from B), and keeps
\* the 'none' of A when B holds none; a directive patched with discovered
\* hashes never holds 'none'.
C15_NoneDroppedWhenAdding ==
  /\ Returned("mergeCspSources", 1) =>
       LET A == call.args.existingSources
           B == call.args.additionalSources
           merged == splitCspSources(call.returned[1])
       IN  /\ HasNonEmpty(B) =>
                /\ "'none'" \in SeqToSet(merged) <=> "'none'" \in SeqToSet(B)
                /\ Count(merged, "'none'") <= 1
                /\ call.returned[1] = mergeCspSources(Without(A, "'none'"), B,
                                                      call.args.stripUnsafeInline)
           /\ (~HasNonEmpty(B) /\ "'none'" \in SeqToSet(A)) => Count(merged, "'none'") = 1
  /\ Returned("patchCspValue", 1) =>
       \A c \in Injecting : "'none'" \notin SeqToSet(TokensOf(call.returned[1], c.name))

\* A value whose style-src-attr was 'none' has been patched with attribute hashes.
C15_Witness ==
  /\ Returned("patchCspValue", 1)
  /\ \E c \in Injecting :
       /\ c.name = <<"style-src-attr">>
       /\ TokensOf(call.args.rawCspValue, c.name) = <<"'none'">>
       /\ Len(TokensOf(call.returned[1], c.name)) > 1

(***************************************************************************)
(* C16                                                                     *)
(***************************************************************************)

\* C16: PatchValue is idempotent: patching the value PatchValue returned
\* with the same sources and options returns it byte for byte; and a value
\* none of whose directives changes is returned itself, unmodified.
C16_PatchIdempotent ==
  /\ Returned("patchCspValue", 2) => call.returned[2] = call.returned[1]
  /\ Returned("patchCspValue", 1) =>
       (ParsedOf(call.returned[1]) = ParsedOf(call.args.rawCspValue)
          => call.returned[1] = call.args.rawCspValue)

\* A value that the first patch changed was patched a second time.
C16_Witness ==
  /\ Returned("patchCspValue", 2)
  /\ call.returned[1] # call.args.rawCspValue
  /\ Cardinality(Injecting) = 3
  /\ call.args.rawCspValue # <<>>

(***************************************************************************)
(* C17                                                                     *)
(***************************************************************************)

\* C17: with stripUnsafeInline, no directive into which hashes are injected
\* holds 'unsafe-inline' after patching; without it, such a directive keeps
\* an 'unsafe-inline' it had; a directive that is not patched keeps its
\* value, 'unsafe-inline' included, in both cases.
C17_UnsafeInlineStripped ==
  Returned("patchCspValue", 1) =>
    LET raw == call.args.rawCspValue
        patched == call.returned[1]
    IN  /\ \A c \in Injecting :
             IF call.args.cspOptions.stripUnsafeInline
             THEN "'unsafe-inline'" \notin SeqToSet(TokensOf(patched, c.name))
             ELSE "'unsafe-inline'" \in SeqToSet(TokensOf(raw, c.name))
                    => "'unsafe-inline'" \in SeqToSet(TokensOf(patched, c.name))
        /\ \A i \in 1..Len(ParsedOf(raw)) :
             LET name == ParsedOf(raw)[i].name
             IN  (\A c \in Injecting : c.name # name) =>
                   /\ MapHas(ParsedOf(patched), name)
                   /\ MapGet(ParsedOf(patched), name) = ParsedOf(raw)[i].value

\* 'unsafe-inline' was stripped from style-src and kept in script-src, which is not patched.
C17_Witness ==
  /\ Returned("patchCspValue", 1)
  /\ call.args.cspOptions.stripUnsafeInline
  /\ \E c \in Injecting :
       /\ c.name = <<"style-src">>
       /\ "'unsafe-inline'" \in SeqToSet(TokensOf(call.args.rawCspValue, c.name))
  /\ \A c \in Injecting : c.name # <<"script-src">>
  /\ "'unsafe-inline'" \in SeqToSet(TokensOf(call.returned[1], <<"script-src">>))

(***************************************************************************)
(* C18                                                                     *)
(***************************************************************************)

\* C18: when style-attribute hashing is enabled and an attribute hash was
\* discovered, the patched style-src-attr holds 'unsafe-hashes' exactly
\* once, before every attribute hash that was added when it was not
\* there already; an absent style-src-attr is created as 'unsafe-hashes'
\* followed by the sorted hashes, without 'self', whereas an absent
\* style-src or script-src is created as 'self' followed by the hashes.
C18_UnsafeHashesForAttributes ==
  Returned("patchCspValue", 1) =>
    LET raw == call.args.rawCspValue
        patched == call.returned[1]
    IN  \A c \in Injecting :
          LET before == TokensOf(raw, c.name)
              after == TokensOf(patched, c.name)
              added == SeqToSet(c.sources) \ SeqToSet(before)
          IN  /\ c.name = <<"style-src-attr">> =>
                   /\ Count(after, "'unsafe-hashes'") = 1
                   /\ "'unsafe-hashes'" \notin SeqToSet(before) =>
                        \A h \in added :
                          PositionOf(after, "'unsafe-hashes'") < PositionOf(after, h)
                   /\ ~MapHas(ParsedOf(raw), c.name) =>
                        /\ after = <<"'unsafe-hashes'">> \o c.sources
                        /\ \A i \in 1..(Len(c.sources) - 1) :
                             StringLess(c.sources[i], c.sources[i + 1])
              /\ (c.name # <<"style-src-attr">> /\ ~MapHas(ParsedOf(raw), c.name)) =>
                   after = <<"'self'">> \o c.sources

\* A value without style-src and style-src-attr was patched with style
\* hashes and two attribute hashes.
C18_Witness ==
  /\ Returned("patchCspValue", 1)
  /\ \A name \in {<<"style-src">>, <<"style-src-attr">>} :
       /\ \E c \in Injecting : c.name = name
       /\ ~MapHas(ParsedOf(call.args.rawCspValue), name)
       /\ MapHas(ParsedOf(call.returned[1]), name)
  /\ Len(call.args.sources.styleAttributeSources) = 2

(***************************************************************************)
(* C19                                                                     *)
(***************************************************************************)

\* The directives a CSP string lists: its segments between semicolons that
\* are not blank, each as the name before its first space and the value after it.
RECURSIVE DirectivesOf(_)
DirectivesOf(segments) ==
  IF segments = <<>> THEN <<>>
  ELSE LET segment == Trim(Head(segments))
           space == IndexOfSpace(segment, 1)
       IN  (IF segment = <<>> THEN <<>>
            ELSE IF space = 0 THEN <<[name |-> segment, value |-> <<>>]>>
            ELSE <<[name |-> SubSeq(segment, 1, space - 1),
                    value |-> Trim(SubSeq(segment, space + 1, Len(segment)))]>>)
           \o DirectivesOf(Tail(segments))

Listed(csp) == DirectivesOf(SplitSemi(csp, <<>>))

NoNameTwice(directives) ==
  \A i, j \in 1..Len(directives) : directives[i].name = directives[j].name => i = j

\* C19 as stated: for every CSP string x, Serialize(Parse(x)) lists the
\* same directives in the same order with the same values as x, and
\* Parse(Serialize(Parse(x))) equals Parse(x).
C19_RoundTripKeepsDirectives ==
  /\ Returned("parseCspDirectives", 2) => Listed(call.returned[2]) = Listed(call.args.csp)
  /\ Returned("parseCspDirectives", 3) => call.returned[3] = call.returned[1]

\* C19, amended: for every CSP string x in which no directive name occurs
\* twice, Serialize(Parse(x)) has the same directives in the same order
\* with the same values as x, differing only by white space and
\* semicolon normalization; for every CSP string x,
\* Parse(Serialize(Parse(x))) equals Parse(x).
C19_RoundTripOfDistinctNames ==
  /\ (Returned("parseCspDirectives", 2) /\ NoNameTwice(Listed(call.args.csp))) =>
       Listed(call.returned[2]) = Listed(call.args.csp)
  /\ Returned("parseCspDirectives", 3) => call.returned[3] = call.returned[1]

\* A string of two directives with surplus white space and semicolons went the round.
C19_Witness ==
  /\ Returned("parseCspDirectives", 3)
  /\ NoNameTwice(Listed(call.args.csp))
  /\ Len(Listed(call.args.csp)) = 2
  /\ \E i \in 1..2 : Listed(call.args.csp)[i].value # <<>>
  /\ call.returned[2] # call.args.csp

(***************************************************************************)
(* C20                                                                     *)
(***************************************************************************)

HeaderNames(headers) == {headers[i].name : i \in 1..Len(headers)}

\* The hook has normalized the map of its configuration.
Normalized == ~NoConfiguration /\ (pc # "idle" \/ HookEnded)

\* C20: in workers mode the normalized map has no key "*": the headers
\* configured under "*" are under "/*"; when both keys are configured
\* their headers are merged under "/*", the value configured under "/*"
\* winning for every header name in both, and a warning is logged; the
\* other routes are untouched. Without workers mode the map is as configured.
C20_WorkersWildcardNormalized ==
  Normalized =>
    LET configured == parseHeaders(startHeaders.value)
    IN  IF workersEnabled /\ HasRoute(configured, "*")
        THEN LET star == HeadersAt(configured, "*")
                 both == HasRoute(configured, "/*")
                 slash == IF both THEN HeadersAt(configured, "/*") ELSE <<>>
             IN  /\ ~HasRoute(patchInput, "*")
                 /\ HasRoute(patchInput, "/*")
                 /\ HeaderNames(HeadersAt(patchInput, "/*")) = HeaderNames(star) \cup HeaderNames(slash)
                 /\ \A n \in HeaderNames(HeadersAt(patchInput, "/*")) :
                      MapGet(HeadersAt(patchInput, "/*"), n) =
                        IF n \in HeaderNames(slash) THEN MapGet(slash, n) ELSE MapGet(star, n)
                 /\ \A i \in 1..Len(configured) :
                      configured[i].route \notin {"*", "/*"} => configured[i] \in SeqToSet(patchInput)
                 /\ Len(patchInput) = Len(configured) - (IF both THEN 1 ELSE 0)
                 /\ both <=> \E i \in 1..Len(log) :
                               log[i].level = "warn" /\ log[i].msg = "Both * and /* routes were found"
        ELSE /\ patchInput = configured
             /\ \A i \in 1..Len(log) : log[i].msg # "Both * and /* routes were found"

\* Both keys were configured with one header name in common; the file
\* written has the merged headers under "/*".
C20_Witness ==
  /\ WroteFile
  /\ workersEnabled
  /\ HasRoute(parseHeaders(startHeaders.value), "*")
  /\ HasRoute(parseHeaders(startHeaders.value), "/*")
  /\ HeaderNames(HeadersAt(parseHeaders(startHeaders.value), "*"))
       \cap HeaderNames(HeadersAt(parseHeaders(startHeaders.value), "/*")) # {}
  /\ Len(HeadersAt(patchInput, "/*")) = 2

(***************************************************************************)
(* C21                                                                     *)
(***************************************************************************)

\* How the hook that has ended ended: what it returned or threw, whether
\* it wrote _headers and with what content.
HookResult ==
  [outcome |-> outcome, written |-> WroteFile,
   content |-> IF WroteFile THEN headersFile.content ELSE <<>>]

\* C21: with the default options the build hook ends as the hook of the
\* previous version does on the same header configuration: the same
\* return or throw, _headers written or not, with the same content.
C21_DefaultsBehaveAsBefore ==
  (HookEnded /\ cspOptions = DEFAULT_CSP_OPTIONS) =>
    \E writeSucceeds \in BOOLEAN :
      HookResult = previousBuildDone(startHeaders, workersEnabled, writeSucceeds)

(***************************************************************************)
(* C22                                                                     *)
(***************************************************************************)

\* The pattern, in which every "*" stands for any sequence of characters
\* and every other character for itself, matches the whole of s.
RECURSIVE GlobMatches(_, _)
GlobMatches(pattern, s) ==
  IF pattern = "" THEN s = ""
  ELSE IF SubSeq(pattern, 1, 1) = "*"
       THEN \E k \in 0..Len(s) :
              GlobMatches(SubSeq(pattern, 2, Len(pattern)), SubSeq(s, k + 1, Len(s)))
       ELSE /\ s # ""
            /\ SubSeq(s, 1, 1) = SubSeq(pattern, 1, 1)
            /\ GlobMatches(SubSeq(pattern, 2, Len(pattern)), SubSeq(s, 2, Len(s)))

\* The characters of a route that are not "*".
LiteralLength(route) == Cardinality({i \in 1..Len(route) : SubSeq(route, i, i) # "*"})

\* The configured wildcard routes with a CSP header that match the built
\* route, as positions of the map handed to the patch.
MatchingTemplates(builtRoute) ==
  {i \in 1..Len(patchInput) :
     /\ IsWildcard(patchInput[i].route)
     /\ HasCspHeader(patchInput[i].headers)
     /\ GlobMatches(patchInput[i].route, builtRoute)}

\* The most specific of them, the first declared among equally specific ones.
BestTemplate(builtRoute) ==
  CHOOSE i \in MatchingTemplates(builtRoute) :
    \A j \in MatchingTemplates(builtRoute) \ {i} :
      \/ LiteralLength(patchInput[i].route) > LiteralLength(patchInput[j].route)
      \/ /\ LiteralLength(patchInput[i].route) = LiteralLength(patchInput[j].route)
         /\ i < j

\* The name of the first header of the entry that is, in any casing, content-security-policy.
CspNameOf(headers) ==
  headers[CHOOSE i \in 1..Len(headers) :
            /\ IsCspName(headers[i].name)
            /\ \A j \in 1..(i - 1) : ~IsCspName(headers[j].name)].name

BestValue(builtRoute) == CspValueOf(patchInput[BestTemplate(builtRoute)].headers)

BestSeed(builtRoute) == patchCspValue(BestValue(builtRoute), SourcesOfRoute(builtRoute), cspOptions)

\* C22: in route mode the entry synthesized for a built route is made from
\* the template that, among the wildcard routes with a CSP header whose
\* pattern matches the built route, has the greatest specificity and,
\* among equally specific ones, is declared first: the entry holds that
\* template's value patched with the route's bucket, under that
\* template's header name.
C22_MostSpecificTemplate ==
  PatchedInMode("route") =>
    \A b \in BuiltRoutes :
      /\ HasTemplate(b) <=> MatchingTemplates(b) # {}
      /\ ( /\ HasSources(b)
           /\ NoExplicitCsp(b)
           /\ MatchingTemplates(b) # {}
           /\ BestSeed(b) # BestValue(b)
           /\ \A other \in BuiltRoutes \ {b} :
                (SameCanonicalRoute(other, b) /\ FirstFileOf(other) < FirstFileOf(b))
                  => ~Seedable(other) ) =>
           /\ HasRoute(routes, EntryKey(b))
           /\ HasCspHeader(HeadersAt(routes, EntryKey(b)))
           /\ CspValueOf(HeadersAt(routes, EntryKey(b))) = BestSeed(b)
           /\ CspNameOf(HeadersAt(routes, EntryKey(b)))
                = CspNameOf(patchInput[BestTemplate(b)].headers)

\* An entry was synthesized for a built route that three templates match:
\* its template is the first declared of the two most specific, which is
\* not the first template declared.
C22_Witness ==
  /\ PatchedInMode("route")
  /\ \E b \in BuiltRoutes :
       /\ HasSources(b)
       /\ NoExplicitCsp(b)
       /\ Cardinality(MatchingTemplates(b)) = 3
       /\ \E j \in MatchingTemplates(b) :
            /\ j > BestTemplate(b)
            /\ LiteralLength(patchInput[j].route) = LiteralLength(patchInput[BestTemplate(b)].route)
       /\ \E j \in MatchingTemplates(b) : j < BestTemplate(b)
       /\ HasRoute(routes, b)
       /\ ~HasRoute(patchInput, b)
       /\ CspValueOf(HeadersAt(routes, b)) = BestSeed(b)

(***************************************************************************)
(* C23                                                                     *)
(***************************************************************************)

\* The route without the slashes it ends with; the root is left as it is.
RECURSIVE Canonical(_)
Canonical(route) ==
  IF route = "/" \/ route = "" \/ SubSeq(route, Len(route), Len(route)) # "/" THEN route
  ELSE Canonical(SubSeq(route, 1, Len(route) - 1))

\* The built routes that are the same canonical route as the configured one.
BucketsFor(route) == {b \in BuiltRoutes : Canonical(b) = Canonical(route)}

\* The bucket an exact route is patched with: its own, else the first of
\* BucketsFor in the order the buckets were made.
OwnOrFirstBucket(route) ==
  IF route \in BuiltRoutes THEN route
  ELSE CHOOSE b \in BucketsFor(route) :
         \A other \in BucketsFor(route) : FirstFileOf(b) <= FirstFileOf(other)

\* C23: in route mode a configured exact route with a CSP header is
\* patched with the bucket stored under its own key if there is one, and
\* otherwise with the first bucket whose route is equal to it once
\* trailing slashes are stripped ("/foo" and "/foo/" are one canonical
\* route; the root "/" is never stripped and matches the bucket "/" only);
\* a route with no such bucket keeps its value.
C23_ExactRouteBucket ==
  PatchedInMode("route") =>
    \A i \in 1..Len(patchInput) :
      (~IsWildcard(patchInput[i].route) /\ HasCspHeader(patchInput[i].headers)) =>
        LET route == patchInput[i].route
            before == CspValueOf(patchInput[i].headers)
            after == CspValueOf(routes[i].headers)
        IN  /\ routes[i].route = route
            /\ CspNameOf(routes[i].headers) = CspNameOf(patchInput[i].headers)
            /\ after = IF BucketsFor(route) # {} /\ HasSources(OwnOrFirstBucket(route))
                       THEN patchCspValue(before, SourcesOfRoute(OwnOrFirstBucket(route)), cspOptions)
                       ELSE before
            /\ route = "/" => BucketsFor(route) \subseteq {"/"}

\* An exact route was patched with the bucket of its own key although the
\* bucket of the same route without the trailing slash was made first.
C23_Witness ==
  /\ PatchedInMode("route")
  /\ \E i \in 1..Len(patchInput) :
       /\ ~IsWildcard(patchInput[i].route)
       /\ HasCspHeader(patchInput[i].headers)
       /\ patchInput[i].route \in BuiltRoutes
       /\ \E b \in BucketsFor(patchInput[i].route) :
            /\ FirstFileOf(b) < FirstFileOf(patchInput[i].route)
            /\ SourcesOfRoute(b) # SourcesOfRoute(patchInput[i].route)
       /\ CspValueOf(routes[i].headers) # CspValueOf(patchInput[i].headers)

(***************************************************************************)
(* C24                                                                     *)
(***************************************************************************)

NamesOf(directives) == [i \in 1..Len(directives) |-> directives[i].name]

\* The names of a list of directives, each at its first occurrence.
FirstSeen(directives) ==
  LET firsts == {i \in 1..Len(directives) :
                   \A j \in 1..(i - 1) : directives[j].name # directives[i].name}
  IN  NamesOf(SelectSeq([i \in 1..Len(directives) |-> [name |-> directives[i].name, at |-> i]],
                        LAMBDA d : d.at \in firsts))

\* The value a name has at its last occurrence.
LastValue(directives, name) ==
  directives[CHOOSE i \in 1..Len(directives) :
               /\ directives[i].name = name
               /\ \A j \in (i + 1)..Len(directives) : directives[j].name # name].value

\* The directives the call followed creates: those of the injecting
\* categories that the value does not list, in the order of the patch.
Created ==
  SelectSeq(<<(<<"style-src">>), (<<"style-src-attr">>), (<<"script-src">>)>>,
            LAMBDA n : /\ \E c \in Injecting : c.name = n
                       /\ \A d \in SeqToSet(Listed(call.args.rawCspValue)) : d.name # n)

\* C24: PatchValue never reorders or drops directives: a changed result
\* lists the directives of the input in the order of their first
\* occurrence (a repeated name once, at its first position, and, when it
\* is not patched, with its last value), then the directives the patch
\* created, in the order style-src, style-src-attr, script-src; and it
\* ends with exactly one semicolon.
C24_PatchKeepsDirectiveOrder ==
  (Returned("patchCspValue", 1) /\ call.returned[1] # call.args.rawCspValue) =>
    LET input == Listed(call.args.rawCspValue)
        patched == call.returned[1]
        output == Listed(patched)
    IN  /\ NamesOf(output) = FirstSeen(input) \o Created
        /\ \A i \in 1..Len(output) :
             (\A c \in Injecting : c.name # output[i].name) =>
               output[i].value = LastValue(input, output[i].name)
        /\ patched[Len(patched)] = ";"
        /\ Len(patched) > 1 /\ patched[Len(patched) - 1] # ";"
        /\ Len(SplitSemi(patched, <<>>)) = Len(output) + 1

\* A value that repeats a name was patched, and the patch created two directives.
C24_Witness ==
  /\ Returned("patchCspValue", 1)
  /\ call.returned[1] # call.args.rawCspValue
  /\ ~NoNameTwice(Listed(call.args.rawCspValue))
  /\ Len(FirstSeen(Listed(call.args.rawCspValue))) = 2
  /\ Len(Created) = 2

(***************************************************************************)
(* C25                                                                     *)
(***************************************************************************)

\* What is left of s without the suffix it ends with.
WithoutSuffix(s, suffix) == SubSeq(s, 1, Len(s) - Len(suffix))

HasSuffix(s, suffix) ==
  \E k \in 0..Len(s) : SubSeq(s, 1, k) \o suffix = s

\* The route of a file, from its path relative to the build root.
RouteOfPath(path) ==
  CASE path = "index.html" -> "/"
    [] path # "index.html" /\ HasSuffix(path, "/index.html") ->
         "/" \o WithoutSuffix(path, "/index.html") \o "/"
    [] path # "index.html" /\ ~HasSuffix(path, "/index.html") /\ HasSuffix(path, ".html") ->
         "/" \o WithoutSuffix(path, ".html")
    [] OTHER -> "/" \o path

\* C25: MapFileToRoute maps "index.html" to "/", "<dir>/index.html" to
\* "/<dir>/" with its trailing slash, any other "<path>.html" to "/<path>"
\* without a trailing slash and any other path to "/<path>" as it is; the
\* buckets are the routes of the files, and the bucket of a route is the
\* union of the hash sets of the files mapped to that route.
C25_FileRoutesAndBuckets ==
  /\ Returned("mapHtmlFileToRoute", 1) => call.returned[1] = RouteOfPath(call.args.relativePath)
  /\ Returned("collectCspHashesByRouteFromBuild", 1) =>
       LET files == call.args.htmlFiles
           buckets == call.returned[1]
           of(route) == {files[i].html : i \in {j \in 1..Len(files) :
                                                   RouteOfPath(files[j].path) = route}}
           sets(html) == collectCspHashesFromHtml(html, call.args.cspOptions)
       IN  /\ {buckets[i].route : i \in 1..Len(buckets)}
                = {RouteOfPath(files[i].path) : i \in 1..Len(files)}
           /\ \A i, j \in 1..Len(buckets) : buckets[i].route = buckets[j].route => i = j
           /\ \A i \in 1..Len(buckets) :
                buckets[i].hashSets =
                  [styleElementHashes |->
                     UNION {sets(html).styleElementHashes : html \in of(buckets[i].route)},
                   styleAttributeHashes |->
                     UNION {sets(html).styleAttributeHashes : html \in of(buckets[i].route)},
                   scriptElementHashes |->
                     UNION {sets(html).scriptElementHashes : html \in of(buckets[i].route)}]

\* Two files of one route, read with a file of another route between
\* them, made one bucket that holds more than either file gives.
C25_Witness ==
  /\ Returned("collectCspHashesByRouteFromBuild", 1)
  /\ Len(call.returned[1]) < Len(call.args.htmlFiles)
  /\ Len(call.returned[1]) > 1
  /\ \E i \in 1..Len(call.returned[1]) :
       \A j \in 1..Len(call.args.htmlFiles) :
         call.returned[1][i].hashSets
           # collectCspHashesFromHtml(call.args.htmlFiles[j].html, call.args.cspOptions)

(***************************************************************************)
(* C26                                                                     *)
(***************************************************************************)

\* Every token of the hash sets a is in the hash sets b, in its category.
Within(a, b) ==
  /\ a.styleElementHashes \subseteq b.styleElementHashes
  /\ a.styleAttributeHashes \subseteq b.styleAttributeHashes
  /\ a.scriptElementHashes \subseteq b.scriptElementHashes

\* The hook is in an aggregation pass.
Aggregating == pc \in {"list", "read", "patch"}

\* C26: during one aggregation pass, global or by route, the hash sets
\* only grow: no step of the pass removes a token from the global
\* accumulator, from the running totals or from a bucket, and none
\* removes a bucket.
C26_HashSetsOnlyGrow ==
  [][Aggregating =>
       /\ Within(mergedHashSets, mergedHashSets')
       /\ Within(totals, totals')
       /\ Len(hashSetsByRoute) <= Len(hashSetsByRoute')
       /\ \A i \in 1..Len(hashSetsByRoute) :
            /\ hashSetsByRoute'[i].route = hashSetsByRoute[i].route
            /\ Within(hashSetsByRoute[i].hashSets, hashSetsByRoute'[i].hashSets)]_vars

\* The pass by route has read its files into two buckets with hashes and
\* its totals hold more than any one bucket.
C26_Witness ==
  /\ pc = "patch"
  /\ cspOptions.mode = "route"
  /\ nextFile > 2
  /\ Cardinality({i \in 1..Len(hashSetsByRoute) :
                    hashSetsByRoute[i].hashSets # createEmptyCspHashSets}) >= 2
  /\ \A i \in 1..Len(hashSetsByRoute) : hashSetsByRoute[i].hashSets # totals

(***************************************************************************)
(* C27                                                                     *)
(***************************************************************************)

\* The orders in which the files can be processed.
Orders(files) ==
  {[i \in 1..Len(files) |-> files[p[i]]] : p \in Permutations(1..Len(files))}

RECURSIVE MergedHashSetsOf(_, _)
MergedHashSetsOf(files, merged) ==
  IF files = <<>> THEN merged
  ELSE MergedHashSetsOf(Tail(files),
         mergeCspHashSets(merged, collectCspHashesFromHtml(Head(files).html, cspOptions)))

\* What patchRoutesCsp makes of the map handed to it when the files are
\* processed in the order given: the routes and the report.
PatchedWith(files) ==
  LET byRoute == HashSetsByRouteOf(files, cspOptions, <<>>)
      merged == MergedHashSetsOf(files, createEmptyCspHashSets)
      patched == IF cspOptions.mode = "route"
                 THEN PatchRoutesByRoute(patchInput, SourcesByRoute(byRoute), cspOptions)
                 ELSE PatchRoutesGlobal(patchInput, buildCspHashSources(merged), cspOptions)
  IN  [routes |-> patched.routes,
       report |-> [inlineStyleHashes |-> Cardinality(merged.styleElementHashes),
                   styleAttributeHashes |-> Cardinality(merged.styleAttributeHashes),
                   inlineScriptHashes |-> Cardinality(merged.scriptElementHashes),
                   updatedCspHeaders |-> patched.updatedCspHeaders]]

\* A map as the set of its entries, each with the set of its headers.
EntriesOf(map) ==
  {[route |-> map[i].route, headers |-> SeqToSet(map[i].headers)] : i \in 1..Len(map)}

\* C27: the result of patching does not depend on the order in which the
\* HTML files are processed: in either mode, whatever the order of the
\* same files, the patch yields the same set of route entries with the
\* same header values and reports the same counts.
C27_FileOrderIrrelevant ==
  (PastPatch /\ patchState = "completed" /\ fsReads > 0) =>
    \A files \in Orders(htmlFiles) :
      /\ EntriesOf(PatchedWith(files).routes) = EntriesOf(routes)
      /\ PatchedWith(files).report = report

(***************************************************************************)
(* C28                                                                     *)
(***************************************************************************)

\* The position of the first header whose name is, in any casing,
\* content-security-policy; 0 if there is none.
FirstCspAt(headers) ==
  IF HasCspHeader(headers)
  THEN CHOOSE i \in 1..Len(headers) :
         IsCspName(headers[i].name) /\ \A j \in 1..(i - 1) : ~IsCspName(headers[j].name)
  ELSE 0

\* C28: PatchRoutes changes nothing but CSP headers: in both modes no
\* route that was there is removed; in each of them every header keeps
\* its name with its casing, every header that is not a CSP header keeps
\* its value, and at most one header is modified, the first whose name
\* matches content-security-policy; a header that is added to it is a CSP
\* header; and a route entry the patch creates holds exactly one header,
\* the CSP header under the header name of its template.
C28_OnlyCspHeadersChange ==
  (PastPatch /\ patchState = "completed") =>
    /\ \A i \in 1..Len(patchInput) :
         /\ HasRoute(routes, patchInput[i].route)
         /\ LET before == patchInput[i].headers
                after == HeadersAt(routes, patchInput[i].route)
            IN  /\ Len(before) <= Len(after)
                /\ \A j \in 1..Len(before) :
                     /\ after[j].name = before[j].name
                     /\ after[j].value # before[j].value => j = FirstCspAt(before)
                /\ \A j \in (Len(before) + 1)..Len(after) :
                     /\ IsCspName(after[j].name)
                     /\ j = Len(before) + 1
                     /\ ~HasCspHeader(before)
    /\ \A i \in 1..Len(routes) :
         ~HasRoute(patchInput, routes[i].route) =>
           /\ cspOptions.mode = "route"
           /\ Len(routes[i].headers) = 1
           /\ MatchingTemplates(routes[i].route) # {}
           /\ routes[i].headers[1].name
                = CspNameOf(patchInput[BestTemplate(routes[i].route)].headers)

(***************************************************************************)
(* C29                                                                     *)
(***************************************************************************)

\* The step is the start of a build hook.
BuildHookStarts == pc = "idle" /\ (pc' # "idle" \/ builds' = builds + 1)

\* C29: nothing persists across builds: a build hook that follows another
\* on the same instance starts from the header configuration the first
\* one started from, which is the configuration captured at setup; the
\* hashes and routes an earlier pass added are not in it.
C29_NothingPersistsAcrossBuilds ==
  [][(BuildHookStarts /\ builds >= 1) => startHeaders' = startHeaders]_vars

(***************************************************************************)
(* C30                                                                     *)
(***************************************************************************)

\* The element's opening tag has an attribute of that name.
HasAttribute(element, name) ==
  \E i \in 1..Len(element.attributes) : ToLowerCase(element.attributes[i].name) = name

\* "sha256-", 43 characters of the base64 alphabet and "=".
WellFormedIntegrity(value) ==
  /\ Len(value) = Len(IntegrityA)
  /\ StartsWith(value, "sha256-")
  /\ EndsWith(value, "=")
  /\ \A i \in (Len("sha256-") + 1)..(Len(value) - 1) : CharAt(value, i) \in Base64Alphabet

\* The well-formed integrity literals of the element's opening tag.
IntegrityLiterals(element) ==
  {element.attributes[i].value :
     i \in {j \in 1..Len(element.attributes) :
              /\ ToLowerCase(element.attributes[j].name) = "integrity"
              /\ WellFormedIntegrity(element.attributes[j].value)}}

\* What an inline element gives: its integrity literal, else the hash of
\* its body when the body, less the characters of ignored, is not empty.
InlineGives(element, ignored) ==
  IF IntegrityLiterals(element) # {} THEN IntegrityLiterals(element)
  ELSE IF \E i \in 1..Len(element.content) : CharAt(element.content, i) \notin ignored
       THEN {hashSha256(element.content)}
       ELSE {}

\* C30: the extractor gives no script hash for a script element whose
\* opening tag has a src attribute, whatever its integrity attribute and
\* its body; a script element without src and a style element give their
\* well-formed integrity literal if they have one, and otherwise the hash
\* of their body when it is not empty (for a script: not blank).
C30_ExternalScriptsNeverHashed ==
  Returned("collectCspHashesFromHtml", 1) =>
    LET elements == call.args.elements
        scripts == {elements[i] : i \in {j \in 1..Len(elements) : elements[j].tag = "script"}}
        styles == {elements[i] : i \in {j \in 1..Len(elements) : elements[j].tag = "style"}}
    IN  /\ call.returned[1].scriptElementHashes =
             IF call.args.cspOptions.hashInlineScripts
             THEN UNION {InlineGives(e, {" ", "\t", "\n"}) :
                           e \in {x \in scripts : ~HasAttribute(x, "src")}}
             ELSE {}
        /\ call.returned[1].styleElementHashes =
             IF call.args.cspOptions.hashStyleElements
             THEN UNION {InlineGives(e, {}) : e \in styles}
             ELSE {}

\* A script with a src attribute, an integrity literal and a body stood
\* next to an inline script with another integrity literal and a body:
\* the only script hash is the inline script's literal.
C30_Witness ==
  /\ Returned("collectCspHashesFromHtml", 1)
  /\ call.args.cspOptions.hashInlineScripts
  /\ \E i, j \in 1..Len(call.args.elements) :
       LET external == call.args.elements[i]
           inline == call.args.elements[j]
       IN  /\ external.tag = "script" /\ HasAttribute(external, "src")
           /\ IntegrityLiterals(external) = {IntegrityA} /\ external.content # ""
           /\ inline.tag = "script" /\ ~HasAttribute(inline, "src")
           /\ IntegrityLiterals(inline) = {IntegrityB} /\ inline.content # ""
  /\ call.returned[1].scriptElementHashes = {IntegrityB}
====
